---- MODULE Spec2Model ----
(***************************************************************************)
(* Verification model of serde_luaq: the PEG recogniser of peg_parser.rs   *)
(* (rules, ordered choice, farthest-failure error reporting), the numeric  *)
(* conversions it calls, and the projections applied to a parsed table.    *)
(*                                                                         *)
(* A byte is a one-character string (or a short name for a byte that has   *)
(* no printable form); an input is a sequence of bytes.  Positions are     *)
(* byte offsets: position p means that p bytes have been consumed, so the  *)
(* next byte is s[p + 1].                                                  *)
(***************************************************************************)
EXTENDS Integers, Sequences, FiniteSets, TLC

VARIABLES input, max_depth, pc, format, result, outcome

vars == <<input, max_depth, pc, format, result, outcome>>

\* ---------------------------------------------------------------------
\* Bytes and character classes
\* ---------------------------------------------------------------------

\* The printable ASCII bytes 0x20..0x7E, in code order.
Printable ==
  <<" ", "!", "\"", "#", "$", "%", "&", "'", "(", ")", "*", "+", ",", "-", ".", "/",
    "0", "1", "2", "3", "4", "5", "6", "7", "8", "9", ":", ";", "<", "=", ">", "?",
    "@", "A", "B", "C", "D", "E", "F", "G", "H", "I", "J", "K", "L", "M", "N", "O",
    "P", "Q", "R", "S", "T", "U", "V", "W", "X", "Y", "Z", "[", "\\", "]", "^", "_",
    "GRAVE", "a", "b", "c", "d", "e", "f", "g", "h", "i", "j", "k", "l", "m", "n", "o",
    "p", "q", "r", "s", "t", "u", "v", "w", "x", "y", "z", "{", "|", "}", "~">>

PrintableSet == {Printable[i] : i \in 1..Len(Printable)}

\* The byte with a given code (u8 value): a printable byte is its character
\* (0x60 is written GRAVE), the others have names.
Chr ==
  [n \in 0..255 |->
     IF n >= 32 /\ n <= 126 THEN Printable[n - 31]
     ELSE CASE n = 0 -> "NUL" [] n = 7 -> "BEL" [] n = 8 -> "BS"
            [] n = 9 -> "\t" [] n = 10 -> "\n" [] n = 11 -> "VT"
            [] n = 12 -> "FF" [] n = 13 -> "\r" [] n = 127 -> "DEL"
            [] OTHER -> "b" \o ToString(n)]

Byte == {Chr[n] : n \in 0..255}

\* Code of a byte.
Ord == [c \in Byte |-> CHOOSE n \in 0..255 : Chr[n] = c]

Lower == {"a", "b", "c", "d", "e", "f", "g", "h", "i", "j", "k", "l", "m",
          "n", "o", "p", "q", "r", "s", "t", "u", "v", "w", "x", "y", "z"}
Upper == {"A", "B", "C", "D", "E", "F", "G", "H", "I", "J", "K", "L", "M",
          "N", "O", "P", "Q", "R", "S", "T", "U", "V", "W", "X", "Y", "Z"}
Digits == {"0", "1", "2", "3", "4", "5", "6", "7", "8", "9"}
HexDigits == Digits \cup {"a", "b", "c", "d", "e", "f", "A", "B", "C", "D", "E", "F"}
WhitespaceBytes == {" ", "\n", "\t", "\r", "VT", "FF"}
IdentStart == Lower \cup Upper \cup {"_"}
IdentRest == IdentStart \cup Digits

\* (c as char).to_digit(16)
HexVal(c) ==
  CASE c \in Digits -> Ord[c] - 48
    [] c \in {"a", "b", "c", "d", "e", "f"} -> Ord[c] - 87
    [] OTHER -> Ord[c] - 55

DecVal(c) == Ord[c] - 48

Min(S) == CHOOSE x \in S : \A y \in S : x <= y
Max(S) == CHOOSE x \in S : \A y \in S : x >= y

\* Lexicographic order of byte strings (Ord for [u8]): -1, 0 or 1.  The
\* strings are compared at the first index where they differ.
CmpBytes(a, b) ==
  LET n == IF Len(a) < Len(b) THEN Len(a) ELSE Len(b)
      diff == {k \in 1..n : a[k] # b[k]}
  IN IF diff = {}
     THEN (IF Len(a) < Len(b) THEN -1 ELSE IF Len(a) > Len(b) THEN 1 ELSE 0)
     ELSE (IF Ord[a[Min(diff)]] < Ord[b[Min(diff)]] THEN -1 ELSE 1)

\* ---------------------------------------------------------------------
\* Reserved words and the identifier validator (lib.rs)
\* ---------------------------------------------------------------------

\* The reserved words of Lua 5.1, which has no goto.
LuaKeywords51 ==
  << <<"a","n","d">>, <<"b","r","e","a","k">>, <<"d","o">>, <<"e","l","s","e">>,
     <<"e","l","s","e","i","f">>, <<"e","n","d">>, <<"f","a","l","s","e">>,
     <<"f","o","r">>, <<"f","u","n","c","t","i","o","n">>,
     <<"i","f">>, <<"i","n">>, <<"l","o","c","a","l">>, <<"n","i","l">>,
     <<"n","o","t">>, <<"o","r">>, <<"r","e","p","e","a","t">>,
     <<"r","e","t","u","r","n">>, <<"t","h","e","n">>, <<"t","r","u","e">>,
     <<"u","n","t","i","l">>, <<"w","h","i","l","e">> >>

\* The reserved words with goto added at the end: a list that is not sorted.
LuaKeywordsGotoLast == Append(LuaKeywords51, <<"g","o","t","o">>)

LUA_KEYWORDS ==
  << <<"a","n","d">>, <<"b","r","e","a","k">>, <<"d","o">>, <<"e","l","s","e">>,
     <<"e","l","s","e","i","f">>, <<"e","n","d">>, <<"f","a","l","s","e">>,
     <<"f","o","r">>, <<"f","u","n","c","t","i","o","n">>, <<"g","o","t","o">>,
     <<"i","f">>, <<"i","n">>, <<"l","o","c","a","l">>, <<"n","i","l">>,
     <<"n","o","t">>, <<"o","r">>, <<"r","e","p","e","a","t">>,
     <<"r","e","t","u","r","n">>, <<"t","h","e","n">>, <<"t","r","u","e">>,
     <<"u","n","t","i","l">>, <<"w","h","i","l","e">> >>

\* slice::binary_search over a list: halve [lo, hi) until it is empty.
RECURSIVE BinarySearchFrom(_, _, _, _)
BinarySearchFrom(list, x, lo, hi) ==
  IF lo >= hi THEN FALSE
  ELSE LET mid == lo + ((hi - lo) \div 2)
           c == CmpBytes(list[mid], x)
       IN IF c = 0 THEN TRUE
          ELSE IF c < 0 THEN BinarySearchFrom(list, x, mid + 1, hi)
          ELSE BinarySearchFrom(list, x, lo, mid)

binary_search(list, x) == BinarySearchFrom(list, x, 1, Len(list) + 1)

IsKeyword(i) == binary_search(LUA_KEYWORDS, i)

valid_lua_identifier(i) ==
  IF i = <<>> \/ IsKeyword(i) THEN FALSE
  ELSE /\ Head(i) \in IdentStart
       /\ \A k \in 2..Len(i) : i[k] \in IdentRest

\* ---------------------------------------------------------------------
\* Fixed-width integers: a sequence of 4-bit limbs, most significant first.
\* An i64 is sixteen limbs in two-complement form.
\* ---------------------------------------------------------------------

I64Limbs == 16

Zeros(n) == [k \in 1..n |-> 0]

I64Zero == Zeros(I64Limbs)

\* The carry into limb k of a + b + cin (limbs k+1..n are the lower ones).
CarryInto(a, b, cin, k) ==
  LET n == Len(a)
  IN \/ \E j \in (k + 1)..n :
          /\ a[j] + b[j] >= 16
          /\ \A i \in (k + 1)..(j - 1) : a[i] + b[i] = 15
     \/ cin = 1 /\ \A i \in (k + 1)..n : a[i] + b[i] = 15

\* a + b + cin over limbs of equal length: d is the sum modulo 16^n, c the
\* carry out.
AddLimbs(a, b, cin) ==
  [d |-> [k \in 1..Len(a) |->
            (a[k] + b[k] + (IF CarryInto(a, b, cin, k) THEN 1 ELSE 0)) % 16],
   c |-> IF CarryInto(a, b, cin, 0) THEN 1 ELSE 0]

\* A small number (below 16) at the width of n limbs.
Small(x, n) == [k \in 1..n |-> IF k = n THEN x ELSE 0]

Complement(a) == [k \in 1..Len(a) |-> 15 - a[k]]

\* a shifted left by b bits (b < 4) keeping the width: d is the result, c
\* says whether a set bit was shifted out.
ShiftLeft(a, b) ==
  LET n == Len(a)
      pw == IF b = 1 THEN 2 ELSE IF b = 2 THEN 4 ELSE 8
      lo(k) == IF k < n THEN a[k + 1] \div (16 \div pw) ELSE 0
  IN [d |-> [k \in 1..n |-> ((a[k] * pw) % 16) + lo(k)],
      c |-> IF n > 0 /\ a[1] \div (16 \div pw) # 0 THEN 1 ELSE 0]

\* A multiplication by 16 that saturates at i64::MAX instead of wrapping.
SaturatingMul16(r) ==
  IF r[1] # 0 THEN [k \in 1..Len(r) |-> IF k = 1 THEN 7 ELSE 15]
  ELSE [k \in 1..Len(r) |-> IF k < Len(r) THEN r[k + 1] ELSE 0]

\* i64::wrapping_mul(r, 16): the limbs move up by one.
wrapping_mul16(r) == [k \in 1..Len(r) |-> IF k < Len(r) THEN r[k + 1] ELSE 0]

\* i64::wrapping_add and wrapping_sub with an operand below 16.
wrapping_add(r, x) == AddLimbs(r, Small(x, Len(r)), 0).d
wrapping_sub(r, x) == AddLimbs(r, Complement(Small(x, Len(r))), 1).d

\* lib.rs wrapping_parse_int with radix 16: the digits are hex digits (the
\* grammar guarantees it), so to_digit never fails.  The loop over the digits
\* from index k on.
RECURSIVE WrappingParseLoop(_, _, _, _)
WrappingParseLoop(digits, k, is_positive, acc) ==
  IF k > Len(digits) THEN acc
  ELSE LET x == HexVal(digits[k])
           m == wrapping_mul16(acc)
           n == IF is_positive THEN wrapping_add(m, x) ELSE wrapping_sub(m, x)
       IN WrappingParseLoop(digits, k + 1, is_positive, n)

wrapping_parse_int(digits, is_positive) ==
  WrappingParseLoop(digits, 1, is_positive, I64Zero)

\* Two-complement negation (modulo 16^n).
Negate(a) == AddLimbs(Complement(a), Zeros(Len(a)), 1).d

\* Number of leading zeros of a sequence of limbs or bits.
LeadingZeros(a) ==
  IF \A k \in 1..Len(a) : a[k] = 0 THEN Len(a)
  ELSE Min({k \in 1..Len(a) : a[k] # 0}) - 1

StripZeros(a) == SubSeq(a, LeadingZeros(a) + 1, Len(a))

\* a * 10 + x over limbs, keeping the width: d the result, c = 1 when the
\* true value does not fit the width.
Mul10Add(a, x) ==
  LET s3 == ShiftLeft(a, 3)
      s1 == ShiftLeft(a, 1)
      m == AddLimbs(s3.d, s1.d, 0)
      r == AddLimbs(m.d, Small(x, Len(a)), 0)
  IN [d |-> r.d, c |-> IF s3.c + s1.c + m.c + r.c > 0 THEN 1 ELSE 0]

\* The natural number written by the decimal digits ds from index k on,
\* accumulated at a fixed width: d the value, c = 1 on overflow of the width.
RECURSIVE DecLoop(_, _, _)
DecLoop(ds, k, acc) ==
  IF k > Len(ds) \/ acc.c = 1 THEN acc
  ELSE LET n == Mul10Add(acc.d, DecVal(ds[k]))
       IN IF n.c = 1 THEN n ELSE DecLoop(ds, k + 1, n)

DecToLimbs(ds, width) == DecLoop(ds, 1, [d |-> Zeros(width), c |-> 0])

Unsigned(src) == IF src # <<>> /\ Head(src) \in {"+", "-"} THEN Tail(src) ELSE src

\* str::parse::<i64>: optional sign, digits; None when the value is
\* outside -2^63 .. 2^63 - 1.
ParseI64(src) ==
  LET neg == Head(src) = "-"
      mag == DecToLimbs(Unsigned(src), I64Limbs)
      fits == /\ mag.c = 0
              /\ \/ mag.d[1] < 8
                 \/ neg /\ mag.d = <<8>> \o Zeros(I64Limbs - 1)
  IN IF ~fits THEN [some |-> FALSE, v |-> I64Zero]
     ELSE [some |-> TRUE, v |-> IF neg THEN Negate(mag.d) ELSE mag.d]

\* Bits of a limb sequence, most significant first, leading zeros kept.
LimbsToBits(a) ==
  [k \in 1..(4 * Len(a)) |->
     LET l == a[((k - 1) \div 4) + 1]
         j == (k - 1) % 4
     IN IF j = 0 THEN l \div 8 ELSE IF j = 1 THEN (l \div 4) % 2
        ELSE IF j = 2 THEN (l \div 2) % 2 ELSE l % 2]

\* bits + 1 over bits: d the sum at the same width, c the carry out.
Increment(bits) ==
  LET n == Len(bits)
      carry(k) == \A i \in (k + 1)..n : bits[i] = 1
  IN [d |-> [k \in 1..n |-> (bits[k] + (IF carry(k) THEN 1 ELSE 0)) % 2],
      c |-> IF carry(0) THEN 1 ELSE 0]

\* f64 has 53 significant bits and a largest binary exponent of 1023.
F64Mantissa == 53
F64MaxBits == 1024

\* A conversion that drops the bits an f64 cannot hold (rounds toward zero).
TruncateToF64(bits) ==
  LET L == Len(bits)
  IN IF L <= F64Mantissa THEN [cls |-> "fin", mag |-> bits]
     ELSE IF L > F64MaxBits THEN [cls |-> "inf", mag |-> <<>>]
     ELSE [cls |-> "fin", mag |-> SubSeq(bits, 1, F64Mantissa) \o Zeros(L - F64Mantissa)]

\* Round a natural number (bits without leading zeros) to the nearest f64,
\* ties to even; the result is the exact value of that f64 as bits, or "inf".
RoundToF64(bits) ==
  LET L == Len(bits)
  IN IF L <= F64Mantissa THEN [cls |-> "fin", mag |-> bits]
     ELSE LET top == SubSeq(bits, 1, F64Mantissa)
              guard == bits[F64Mantissa + 1]
              sticky == \E k \in (F64Mantissa + 2)..L : bits[k] = 1
              up == guard = 1 /\ (sticky \/ top[F64Mantissa] = 1)
              inc == Increment(top)
              mant == IF ~up THEN top
                      ELSE IF inc.c = 1 THEN <<1>> \o inc.d ELSE inc.d
              val == mant \o Zeros(L - F64Mantissa)
          IN IF Len(val) > F64MaxBits THEN [cls |-> "inf", mag |-> <<>>]
             ELSE [cls |-> "fin", mag |-> val]

\* str::parse::<f64> of an optional sign followed by decimal digits only:
\* the digits are read exactly (four bits per digit are enough) and rounded.
ParseF64Integer(src) ==
  LET ds == Unsigned(src)
      r == RoundToF64(StripZeros(LimbsToBits(DecToLimbs(ds, Len(ds)).d)))
  IN [t |-> "float", neg |-> Head(src) = "-", cls |-> r.cls, mag |-> r.mag]

\* ---------------------------------------------------------------------
\* Values (value/mod.rs, number/mod.rs, table_entry.rs)
\* ---------------------------------------------------------------------

Nil == [t |-> "nil"]
Boolean(b) == [t |-> "bool", b |-> b]
Integer(v) == [t |-> "int", v |-> v]
\* A float whose value is carried as its literal (decimal or hexadecimal
\* float syntax): the conversion is strtod's.
FloatLit(kind, src) ==
  [t |-> "float", neg |-> src # <<>> /\ Head(src) = "-", cls |-> kind, mag |-> src]
FloatInf(neg) == [t |-> "float", neg |-> neg, cls |-> "inf", mag |-> <<>>]
FloatNaN == [t |-> "float", neg |-> FALSE, cls |-> "nan", mag |-> <<>>]
\* A string and how its Cow holds it: own is "input" (borrowed from the
\* input buffer at offset at), "static" (borrowed from a constant) or "owned".
String(span) == [t |-> "str", s |-> span.b, own |-> span.own, at |-> span.at]
Table(entries) == [t |-> "table", e |-> entries]

\* LuaTableEntry
EntryValue(v) == [k |-> "value", val |-> v]
EntryKeyValue(key, v) == [k |-> "keyvalue", key |-> key, val |-> v]
EntryNameValue(name, v) == [k |-> "namevalue", name |-> name, val |-> v]

\* ---------------------------------------------------------------------
\* The PEG machinery (what peg::parser! generates)
\*
\* A rule applied at a position returns [ok, pos, val, e]: whether it
\* matched, the position after the match, the value built, and the
\* failures it recorded on the way, as rust-peg's ErrorState keeps them: e.p
\* is the farthest position at which a failure was marked and e.x the
\* expected-tokens marked there.  Every mark is a sequence of strings.
\* The record also measures the recursion of the rule: e.deep is the
\* greatest number of table productions that were active at once while the
\* rule ran, and e.open the greatest number of them that were past the
\* budget check of their opener, their entries being parsed.  e.idle tells
\* that a repetition made an iteration that matched without consuming a
\* byte: the loop rust-peg generates for "*", "+" and "**" goes on until its
\* element fails, so that such a repetition never ends.
\* ---------------------------------------------------------------------

NoErr == [p |-> -1, x |-> {}, deep |-> 0, open |-> 0, idle |-> FALSE]

\* ErrorState::mark_failure(pos, expected)
Mark(p, m) == [p |-> p, x |-> {m}, deep |-> 0, open |-> 0, idle |-> FALSE]

Merge(a, b) ==
  [p |-> IF a.p > b.p THEN a.p ELSE b.p,
   x |-> IF a.p > b.p THEN a.x ELSE IF b.p > a.p THEN b.x ELSE a.x \cup b.x,
   deep |-> IF a.deep > b.deep THEN a.deep ELSE b.deep,
   open |-> IF a.open > b.open THEN a.open ELSE b.open,
   idle |-> a.idle \/ b.idle]

\* The record of a repetition whose element matched without consuming a
\* byte.
Idle(e) == [e EXCEPT !.idle = TRUE]

Matched(pos, val, e) == [ok |-> TRUE, pos |-> pos, val |-> val, e |-> e]
Failed(e) == [ok |-> FALSE, pos |-> 0, val |-> <<>>, e |-> e]

\* Sequence "a b": b is applied only when a matched.
Then(ra, rb) == IF ra.ok THEN [rb EXCEPT !.e = Merge(ra.e, rb.e)] ELSE ra

\* Ordered choice "a / b": b is tried only when a failed.
Else(ra, rb) == IF ra.ok THEN ra ELSE [rb EXCEPT !.e = Merge(ra.e, rb.e)]

\* "a?" at position p
Opt(ra, p) == IF ra.ok THEN ra ELSE Matched(p, <<>>, ra.e)

\* quiet!{ a }, and the lookaheads: failures inside are not recorded.
Quiet(ra) == [ra EXCEPT !.e = NoErr]

\* expected!(name)
Expected(p, name) == Failed(Mark(p, <<name>>))

\* A string literal: a failure is marked at the start of the literal.
Lit(s, p, lit) ==
  IF p + Len(lit) <= Len(s) /\ SubSeq(s, p + 1, p + Len(lit)) = lit
  THEN Matched(p + Len(lit), lit, NoErr)
  ELSE Failed(Mark(p, <<"\"">> \o lit \o <<"\"">>))

\* A byte pattern [ ... ]
Pat(s, p, set, name) ==
  IF p < Len(s) /\ s[p + 1] \in set
  THEN Matched(p + 1, <<s[p + 1]>>, NoErr)
  ELSE Failed(Mark(p, <<name>>))

\* Position after the longest run of bytes of the set starting at p.
RECURSIVE Run(_, _, _)
Run(s, p, set) ==
  IF p < Len(s) /\ s[p + 1] \in set THEN Run(s, p + 1, set) ELSE p

\* $( ... ): the matched bytes
Slice(s, from, to) == SubSeq(s, from + 1, to)

\* A rule of the grammar applied at position p with argument arg (the depth
\* budget, or the level of a long bracket).  The generated parser has one
\* function per rule, __parse_<rule>; here every rule is applied through
\* Rule, which is defined after the rules.
RECURSIVE Rule(_, _, _, _)

\* ---------------------------------------------------------------------
\* Lexical rules of peg_parser.rs
\* ---------------------------------------------------------------------

\* rule whitespace() = quiet!{[...]} / expected!("whitespace")
whitespace(s, p) ==
  Else(Quiet(Pat(s, p, WhitespaceBytes, "ws")), Expected(p, "whitespace"))

\* rule _ = whitespace()*   (the last, failing, attempt marks "whitespace")
Ws(s, p) ==
  LET q == Run(s, p, WhitespaceBytes)
  IN Matched(q, <<>>, whitespace(s, q).e)

\* rule __ = whitespace()+
Ws1(s, p) ==
  LET r == Ws(s, p) IN IF r.pos > p THEN r ELSE Failed(r.e)

\* rule identifier()
identifier(s, p) ==
  LET first == Pat(s, p, IdentStart, "[b'a'..=b'z' | b'A'..=b'Z' | b'_']")
      q == Run(s, first.pos, IdentRest)
      restMark == Pat(s, q, {}, "[b'a'..=b'z' | b'A'..=b'Z' | b'_' | b'0'..=b'9']").e
      i == Slice(s, p, q)
      body == IF ~first.ok THEN first
              ELSE IF binary_search(LUA_KEYWORDS, i)
                   THEN Failed(Merge(restMark, Mark(q, <<"identifier cannot be a reserved word">>)))
                   ELSE Matched(q, i, restMark)
  IN Else(body, Expected(p, "identifier"))

\* rule linebreak() = "\r\n" / "\n\r" / "\r" / "\n"
linebreak(s, p) ==
  Else(Lit(s, p, <<"\r", "\n">>),
  Else(Lit(s, p, <<"\n", "\r">>),
  Else(Lit(s, p, <<"\r">>), Lit(s, p, <<"\n">>))))

\* rule digit() = $(quiet!{[0-9]}) / expected!("digit")
digit(s, p) == Else(Quiet(Pat(s, p, Digits, "d")), Expected(p, "digit"))

\* digit()*
DigitStar(s, p) ==
  LET q == Run(s, p, Digits) IN Matched(q, Slice(s, p, q), digit(s, q).e)

\* digit()+
DigitPlus(s, p) ==
  LET r == DigitStar(s, p) IN IF r.pos > p THEN r ELSE Failed(r.e)

\* rule hex_digit() = $(quiet!{[0-9a-fA-F]}) / expected!("hex digit")
hex_digit(s, p) == Else(Quiet(Pat(s, p, HexDigits, "h")), Expected(p, "hex digit"))

\* rule hex_digits() = $(quiet!{ hex_digit()+ }) / expected!("hex digits")
hex_digits(s, p) ==
  LET q == Run(s, p, HexDigits)
  IN IF q > p THEN Matched(q, Slice(s, p, q), NoErr) ELSE Expected(p, "hex digits")

SignPat(s, p) == Pat(s, p, {"+", "-"}, "[b'+' | b'-']")

\* ( [eE] [+-]? digit()+ ) and ( [pP] [+-]? digit()+ )
Exponent(s, p, letters, name) ==
  LET m == Pat(s, p, letters, name)
      sg == Opt(SignPat(s, m.pos), m.pos)
  IN Then(m, Then(sg, DigitPlus(s, sg.pos)))

DecExponent(s, p) == Exponent(s, p, {"e", "E"}, "[b'e' | b'E']")
BinExponent(s, p) == Exponent(s, p, {"P", "p"}, "[b'P' | b'p']")

\* The decimal float alternative of rule numbers(), without its action.
DecFloatSyntax(s, p) ==
  LET sg == Opt(SignPat(s, p), p)
      a == sg.pos
      \* (digit()+ [.] digit()*) / ([.] digit()+)
      d1 == DigitPlus(s, a)
      dot1 == Pat(s, d1.pos, {"."}, "[b'.']")
      form1 == Then(d1, Then(dot1, DigitStar(s, dot1.pos)))
      dot2 == Pat(s, a, {"."}, "[b'.']")
      form2 == Then(dot2, DigitPlus(s, dot2.pos))
      mant == Else(form1, form2)
      withExp == Then(mant, Opt(DecExponent(s, mant.pos), mant.pos))
      \* digit()+ [eE] [+-]? digit()+
      d3 == DigitPlus(s, a)
      mandatory == Then(d3, DecExponent(s, d3.pos))
  IN Then(sg, Else(withExp, mandatory))

\* The hexadecimal float alternative of rule numbers(), without its action.
HexFloatSyntax(s, p) ==
  LET sg == Opt(SignPat(s, p), p)
      pre == Else(Lit(s, sg.pos, <<"0", "x">>), Lit(s, sg.pos, <<"0", "X">>))
      a == pre.pos
      \* hex_digits() "." hex_digits()? ( [Pp] [+-]? digit()+ )?
      h1 == hex_digits(s, a)
      dot1 == Lit(s, h1.pos, <<".">>)
      frac1 == Opt(hex_digits(s, dot1.pos), dot1.pos)
      form1 == Then(h1, Then(dot1, Then(frac1,
                 Opt(BinExponent(s, frac1.pos), frac1.pos))))
      \* "." hex_digits() ( [Pp] [+-]? digit()+ )?
      dot2 == Lit(s, a, <<".">>)
      frac2 == hex_digits(s, dot2.pos)
      form2 == Then(dot2, Then(frac2, Opt(BinExponent(s, frac2.pos), frac2.pos)))
      \* hex_digits() [Pp] [+-]? digit()+
      h3 == hex_digits(s, a)
      form3 == Then(h3, BinExponent(s, h3.pos))
  IN Then(sg, Then(pre, Else(form1, Else(form2, form3))))

\* The hexadecimal integer alternative of rule numbers().
HexInteger(s, p) ==
  LET sg == Opt(SignPat(s, p), p)
      sign == Slice(s, p, sg.pos)
      zero == Lit(s, sg.pos, <<"0">>)
      x == Pat(s, zero.pos, {"X", "x"}, "[b'X' | b'x']")
      n == hex_digits(s, x.pos)
      r == Then(sg, Then(zero, Then(x, n)))
  IN IF r.ok
     THEN [r EXCEPT !.val = Integer(wrapping_parse_int(n.val, sign # <<"-">>))]
     ELSE r

\* The decimal integer alternative of rule numbers().
DecInteger(s, p) ==
  LET sg == Opt(SignPat(s, p), p)
      r == Then(sg, DigitPlus(s, sg.pos))
      src == Slice(s, p, r.pos)
      n == ParseI64(src)
  IN IF r.ok
     THEN [r EXCEPT !.val = IF n.some THEN Integer(n.v) ELSE ParseF64Integer(src)]
     ELSE r

\* rule numbers() -> LuaNumber
numbers(s, p) ==
  LET neginf == Lit(s, p, <<"-", "1", "e", "9", "9", "9", "9">>)
      posinf == Lit(s, p, <<"1", "e", "9", "9", "9", "9">>)
      nan == Lit(s, p, <<"(", "0", "/", "0", ")">>)
      df == Rule("DecFloatSyntax", s, p, 0)
      hf == Rule("HexFloatSyntax", s, p, 0)
  IN Else([neginf EXCEPT !.val = FloatInf(TRUE)],
     Else([posinf EXCEPT !.val = FloatInf(FALSE)],
     Else([nan EXCEPT !.val = FloatNaN],
     Else([df EXCEPT !.val = FloatLit("dec", Slice(s, p, df.pos))],
     Else([hf EXCEPT !.val = FloatLit("hex", Slice(s, p, hf.pos))],
     Else(Rule("HexInteger", s, p, 0), Rule("DecInteger", s, p, 0)))))))

\* ---------------------------------------------------------------------
\* Strings
\* ---------------------------------------------------------------------

\* A span of a string: its bytes, and where the Cow points.
InputSpan(s, from, to) == [b |-> Slice(s, from, to), own |-> "input", at |-> from]
StaticSpan(bytes) == [b |-> bytes, own |-> "static", at |-> -1]
OwnedSpan(bytes) == [b |-> bytes, own |-> "owned", at |-> -1]

EMPTY == StaticSpan(<<>>)

\* slice_of_byte(i)
slice_of_byte(i) == StaticSpan(<<Chr[i]>>)

\* Concatenation of a sequence of byte sequences.
RECURSIVE Flatten(_)
Flatten(ss) == IF ss = <<>> THEN <<>> ELSE Head(ss) \o Flatten(Tail(ss))

\* merge_spans that hands out the range of the input that starts at the
\* first span, as if the spans were adjacent and unescaped.
MergeSpansInPlace(spans) ==
  IF spans = <<>> THEN EMPTY
  ELSE [b |-> Flatten([k \in 1..Len(spans) |-> spans[k].b]),
        own |-> "input",
        at |-> Max({spans[k].at : k \in 1..Len(spans)})]

\* merge_spans(s)
merge_spans(spans) ==
  IF spans = <<>> THEN EMPTY
  ELSE IF Len(spans) = 1 THEN spans[1]
  ELSE OwnedSpan(Flatten([k \in 1..Len(spans) |-> spans[k].b]))

\* A result with the value replaced when it matched.
WithVal(r, v) == IF r.ok THEN [r EXCEPT !.val = v] ELSE r

\* The escapes that are one literal each, in the order of rule escaped_char().
SimpleEscapes ==
  << [lit |-> <<"\\", "a">>, out |-> <<"BEL">>],
     [lit |-> <<"\\", "b">>, out |-> <<"BS">>],
     [lit |-> <<"\\", "f">>, out |-> <<"FF">>],
     [lit |-> <<"\\", "n">>, out |-> <<"\n">>],
     [lit |-> <<"\\", "r">>, out |-> <<"\r">>],
     [lit |-> <<"\\", "t">>, out |-> <<"\t">>],
     [lit |-> <<"\\", "v">>, out |-> <<"VT">>],
     [lit |-> <<"\\", "\\">>, out |-> <<"\\">>],
     [lit |-> <<"\\", "\"">>, out |-> <<"\"">>],
     [lit |-> <<"\\", "'">>, out |-> <<"'">>],
     [lit |-> <<"\\", "\r", "\n">>, out |-> <<"\r", "\n">>],
     [lit |-> <<"\\", "\n", "\r">>, out |-> <<"\n", "\r">>],
     [lit |-> <<"\\", "\n">>, out |-> <<"\n">>],
     [lit |-> <<"\\", "\r">>, out |-> <<"\r">>] >>

RECURSIVE SimpleEscapeFrom(_, _, _)
SimpleEscapeFrom(s, p, k) ==
  IF k > Len(SimpleEscapes) THEN Failed(NoErr)
  ELSE Else(WithVal(Lit(s, p, SimpleEscapes[k].lit), StaticSpan(SimpleEscapes[k].out)),
            SimpleEscapeFrom(s, p, k + 1))

\* r"\z" _ { EMPTY }
SkipEscape(s, p) ==
  LET z == Lit(s, p, <<"\\", "z">>)
  IN WithVal(Then(z, Ws(s, z.pos)), EMPTY)

\* r"\x" x:$(hex_digit()*<2>)
HexEscape(s, p) ==
  LET x == Lit(s, p, <<"\\", "x">>)
      h1 == hex_digit(s, x.pos)
      h2 == hex_digit(s, h1.pos)
      r == Then(x, Then(h1, h2))
  IN WithVal(r, slice_of_byte(16 * HexVal(s[x.pos + 1]) + HexVal(s[x.pos + 2])))

\* The decimal escape that keeps the low eight bits of a value above 255
\* instead of failing.
DecimalEscapeWrapping(s, p) ==
  LET bs == Lit(s, p, <<"\\">>)
      a == bs.pos
      q1 == Run(s, a, Digits)
      q == IF q1 > a + 3 THEN a + 3 ELSE q1
      stop == IF q < a + 3 THEN digit(s, q).e ELSE NoErr
      x == Slice(s, a, q)
      n == IF Len(x) = 1 THEN DecVal(x[1])
           ELSE IF Len(x) = 2 THEN 10 * DecVal(x[1]) + DecVal(x[2])
           ELSE 100 * DecVal(x[1]) + 10 * DecVal(x[2]) + DecVal(x[3])
  IN IF ~bs.ok THEN bs
     ELSE IF q = a THEN Failed(stop)
     ELSE Matched(q, slice_of_byte(n % 256), stop)

\* r"\" x:$(digit()*<1,3>) {? x.parse::<u8>() }
DecimalEscape(s, p) ==
  LET bs == Lit(s, p, <<"\\">>)
      a == bs.pos
      q1 == Run(s, a, Digits)
      q == IF q1 > a + 3 THEN a + 3 ELSE q1
      stop == IF q < a + 3 THEN digit(s, q).e ELSE NoErr
      x == Slice(s, a, q)
      n == IF Len(x) = 1 THEN DecVal(x[1])
           ELSE IF Len(x) = 2 THEN 10 * DecVal(x[1]) + DecVal(x[2])
           ELSE 100 * DecVal(x[1]) + 10 * DecVal(x[2]) + DecVal(x[3])
  IN IF ~bs.ok THEN bs
     ELSE IF q = a THEN Failed(stop)
     ELSE IF n <= 255 THEN Matched(q, slice_of_byte(n), stop)
     ELSE Failed(Merge(stop, Mark(q, <<"decimal escape too large">>)))

\* u32::from_str_radix(x, 16) restricted to the values the caller keeps:
\* -1 stands for an error or a value above 0x7FFFFFFF.
RECURSIVE HexToNat(_, _)
HexToNat(ds, acc) ==
  IF ds = <<>> THEN acc ELSE HexToNat(Tail(ds), 16 * acc + HexVal(Head(ds)))

CodepointOf(x) ==
  LET sig == StripZeros([k \in 1..Len(x) |-> HexVal(x[k])])
  IN IF Len(sig) > 8 \/ (Len(sig) = 8 /\ sig[1] >= 8) THEN -1
     ELSE HexToNat(SubSeq(x, Len(x) - Len(sig) + 1, Len(x)), 0)

\* The encoding loop of the \u{...} escape (luaO_utf8esc): the continuation
\* bytes are pushed low bits first, then the lead byte; buff is reversed at
\* the end.
RECURSIVE Utf8Push(_, _, _)
Utf8Push(codepoint, mfb, buff) ==
  IF codepoint > mfb
  THEN Utf8Push(codepoint \div 64, mfb \div 2, Append(buff, 128 + (codepoint % 64)))
  ELSE Append(buff, (((255 - mfb) * 2) % 256) + codepoint)

Reverse(q) == [k \in 1..Len(q) |-> q[Len(q) + 1 - k]]

\* The encoding without buff.reverse(): the bytes in the order they were
\* pushed.
Utf8EscUnreversed(codepoint) ==
  LET buff == Utf8Push(codepoint, 63, <<>>)
  IN [k \in 1..Len(buff) |-> Chr[buff[k]]]

Utf8Esc(codepoint) ==
  LET buff == Reverse(Utf8Push(codepoint, 63, <<>>))
  IN [k \in 1..Len(buff) |-> Chr[buff[k]]]

\* r"\u{" x:$(hex_digits()) "}" {? ... }
UnicodeEscape(s, p) ==
  LET u == Lit(s, p, <<"\\", "u", "{">>)
      x == hex_digits(s, u.pos)
      close == Lit(s, x.pos, <<"}">>)
      r == Then(u, Then(x, close))
      codepoint == CodepointOf(x.val)
  IN IF ~r.ok THEN r
     ELSE IF codepoint < 0
          THEN Failed(Merge(r.e, Mark(r.pos, <<"UTF-8 value too large">>)))
     ELSE IF codepoint < 128 THEN WithVal(r, slice_of_byte(codepoint))
     ELSE WithVal(r, OwnedSpan(Utf8Esc(codepoint)))

\* rule escaped_char()
escaped_char(s, p) ==
  Else(SimpleEscapeFrom(s, p, 1),
  Else(SkipEscape(s, p),
  Else(HexEscape(s, p),
  Else(DecimalEscape(s, p),
  Else(UnicodeEscape(s, p), Expected(p, "valid escape sequence"))))))

\* rules double_quoted_chars() and single_quoted_chars(): a run of plain
\* bytes (every byte but the quote, the backslash, CR and LF), or an escape.
QuotedChars(s, p, quote, name) ==
  LET plain == Byte \ {quote, "\\", "\r", "\n"}
      q == Run(s, p, plain)
      stop == Mark(q, <<name>>)
  IN IF q > p THEN Matched(q, InputSpan(s, p, q), stop)
     ELSE [Rule("escaped_char", s, p, 0) EXCEPT !.e = Merge(stop, @)]

RECURSIVE QuotedSpans(_, _, _, _, _, _)

\* The repetition after its element matched as r at position p.
NextSpan(s, p, quote, name, spans, e, r) ==
  IF r.pos = p THEN Matched(p, spans, Idle(Merge(e, r.e)))
  ELSE QuotedSpans(s, r.pos, quote, name, Append(spans, r.val), Merge(e, r.e))

QuotedSpans(s, p, quote, name, spans, e) ==
  LET r == QuotedChars(s, p, quote, name)
  IN IF ~r.ok THEN Matched(p, spans, Merge(e, r.e))
     ELSE NextSpan(s, p, quote, name, spans, e, r)

\* rules double_quoted_string() and single_quoted_string()
QuotedString(s, p, quote, name) ==
  LET open == Lit(s, p, <<quote>>)
      body == QuotedSpans(s, open.pos, quote, name, <<>>, NoErr)
      close == Lit(s, body.pos, <<quote>>)
  IN WithVal(Then(open, Then(body, close)), merge_spans(body.val))

double_quoted_string(s, p) ==
  QuotedString(s, p, "\"", "[^ b'\"' | b'\\\\' | b'\\r' | b'\\n']")
single_quoted_string(s, p) ==
  QuotedString(s, p, "'", "[^ b'\\'' | b'\\\\' | b'\\r' | b'\\n']")

\* "="*<{level}> : exactly level equals signs
RECURSIVE Equals(_, _, _)
Equals(s, p, level) ==
  IF level = 0 THEN Matched(p, <<>>, NoErr)
  ELSE LET r == Lit(s, p, <<"=">>) IN Then(r, Equals(s, r.pos, level - 1))

\* A closing bracket taken for one whatever its level: "]" "="* "]"
CloseBracketOfAnyLevel(s, p, level) ==
  LET a == Lit(s, p, <<"]">>)
      q == Run(s, a.pos, {"="})
  IN Then(a, Lit(s, q, <<"]">>))

\* "]" "="*<{level}> "]"
CloseBracket(s, p, level) ==
  LET a == Lit(s, p, <<"]">>)
      b == Equals(s, a.pos, level)
  IN Then(a, Then(b, Lit(s, b.pos, <<"]">>)))

\* ( !close [_] )+ from p: the position where the closing bracket starts,
\* or the end of the input.
RECURSIVE ScanLong(_, _, _)
ScanLong(s, p, level) ==
  IF p >= Len(s) \/ CloseBracket(s, p, level).ok THEN p
  ELSE ScanLong(s, p + 1, level)

\* The body and closing bracket shared by long_string() and
\* longer_string(level), from the position after the opening bracket.
LongBody(s, p, level, close) ==
  LET lb == Opt(linebreak(s, p), p)
      a == lb.pos
      q == ScanLong(s, a, level)
      \* the repetition stops on a failing [_] (end of input) or on the
      \* lookahead, which records nothing
      stop == IF q >= Len(s) THEN Mark(q, <<"[_]">>) ELSE NoErr
      r == Then(lb, [close EXCEPT !.e = Merge(stop, @)])
  IN WithVal(r, IF q > a THEN InputSpan(s, a, q) ELSE EMPTY)

\* rule longer_string(level)
longer_string(s, p, level) ==
  LET a == Lit(s, p, <<"[">>)
      b == Equals(s, a.pos, level)
      c == Lit(s, b.pos, <<"[">>)
      open == Then(a, Then(b, c))
      lb == Opt(linebreak(s, open.pos), open.pos)
      q == ScanLong(s, lb.pos, level)
  IN Then(open, LongBody(s, open.pos, level, CloseBracket(s, q, level)))

\* rule long_string()
long_string(s, p) ==
  LET open == Lit(s, p, <<"[", "[">>)
      lb == Opt(linebreak(s, open.pos), open.pos)
      q == ScanLong(s, lb.pos, 0)
  IN Then(open, LongBody(s, open.pos, 0, Lit(s, q, <<"]", "]">>)))

\* rule string()
string(s, p) ==
  Else(Rule("single_quoted_string", s, p, 0),
  Else(Rule("double_quoted_string", s, p, 0),
  Else(Rule("long_string", s, p, 0),
  Else(Rule("longer_string", s, p, 1),
  Else(Rule("longer_string", s, p, 2),
  Else(Rule("longer_string", s, p, 3),
  Else(Rule("longer_string", s, p, 4), Rule("longer_string", s, p, 5))))))))

\* ---------------------------------------------------------------------
\* Values, tables and the three entry points
\* ---------------------------------------------------------------------

SepPat(s, p) == Pat(s, p, {",", ";"}, "[b',' | b';']")

\* max_depth.saturating_sub(1)
saturating_sub(d, n) == IF d >= n THEN d - n ELSE 0

\* A budget check that is off by one: it also refuses the last level.
TableOpenCheckOffByOne(p, d) ==
  IF d <= 1 THEN Failed(Mark(p, <<"too deeply nested">>)) ELSE Matched(p, <<>>, NoErr)

\* A table opener without a budget check.
TableOpenUnchecked(p, d) == Matched(p, <<>>, NoErr)

\* The budget check at the table opener: "{" {? if max_depth == 0 ... }
TableOpenCheck(p, d) ==
  IF d = 0 THEN Failed(Mark(p, <<"too deeply nested">>)) ELSE Matched(p, <<>>, NoErr)

TableOpen(s, p, d) ==
  LET brace == Lit(s, p, <<"{">>) IN Then(brace, TableOpenCheck(brace.pos, d))

RECURSIVE MoreEntries(_, _, _, _, _)

\* The repetition after a separator and an element, which matched as ent,
\* were applied at position p.
NextEntry(s, p, d, acc, e, ent) ==
  IF ent.pos = p THEN Matched(p, acc, Idle(Merge(e, ent.e)))
  ELSE MoreEntries(s, ent.pos, d, Append(acc, ent.val), Merge(e, ent.e))

\* Scalar alternatives that also take a name for a value, as an expression
\* grammar would: the name of a variable that is not set reads as nil.
ScalarAlternativesOrName(s, p) ==
  LET n == Rule("numbers", s, p, 0)
      st == Rule("string", s, p, 0)
      id == Rule("identifier", s, p, 0)
  IN Else(WithVal(Lit(s, p, <<"n", "i", "l">>), Nil),
     Else(WithVal(Lit(s, p, <<"t", "r", "u", "e">>), Boolean(TRUE)),
     Else(WithVal(Lit(s, p, <<"f", "a", "l", "s", "e">>), Boolean(FALSE)),
     Else(n, Else(WithVal(st, String(st.val)), WithVal(id, Nil))))))

\* The alternatives of rule lua_value(max_depth) that come before the table:
\* "nil", "true", "false", numbers() and string().
ScalarAlternatives(s, p) ==
  LET n == Rule("numbers", s, p, 0)
      st == Rule("string", s, p, 0)
  IN Else(WithVal(Lit(s, p, <<"n", "i", "l">>), Nil),
     Else(WithVal(Lit(s, p, <<"t", "r", "u", "e">>), Boolean(TRUE)),
     Else(WithVal(Lit(s, p, <<"f", "a", "l", "s", "e">>), Boolean(FALSE)),
     Else(n, WithVal(st, String(st.val))))))

\* rule lua_value(max_depth) = _ v:( ... ) _ { v }
\* The table is the last alternative before expected!("Lua value").
lua_value_rule(s, p, d) ==
  LET w1 == Ws(s, p)
      a == w1.pos
      sc == ScalarAlternatives(s, a)
      t == Rule("table", s, a, d)
      v == IF sc.ok THEN sc
           ELSE IF t.ok THEN Matched(t.pos, Table(t.val), Merge(sc.e, t.e))
           ELSE Failed(Merge(sc.e, Merge(t.e, Mark(a, <<"Lua value">>))))
      w2 == Ws(s, v.pos)
  IN IF ~v.ok THEN Failed(Merge(w1.e, v.e))
     ELSE Matched(w2.pos, v.val, Merge(w1.e, Merge(v.e, w2.e)))

\* _ "=" _ val:lua_value(max_depth)
AssignTail(s, p, d) ==
  LET w1 == Ws(s, p)
      eq == Lit(s, w1.pos, <<"=">>)
      w2 == Ws(s, eq.pos)
      val == Rule("lua_value_rule", s, w2.pos, d)
  IN IF ~eq.ok THEN Failed(Merge(w1.e, eq.e))
     ELSE IF ~val.ok THEN Failed(Merge(w1.e, Merge(w2.e, val.e)))
     ELSE Matched(val.pos, val.val, Merge(w1.e, Merge(w2.e, val.e)))

\* "[" key:lua_value(max_depth) _ "]" _ "=" _ val:lua_value(max_depth)
KeyedEntry(s, p, d) ==
  LET open == Lit(s, p, <<"[">>)
      key == Rule("lua_value_rule", s, open.pos, d)
      w == Ws(s, key.pos)
      close == Lit(s, w.pos, <<"]">>)
      val == AssignTail(s, close.pos, d)
  IN IF ~open.ok THEN open
     ELSE IF ~key.ok THEN key
     ELSE IF ~close.ok THEN Failed(Merge(key.e, Merge(w.e, close.e)))
     ELSE IF ~val.ok THEN Failed(Merge(key.e, Merge(w.e, val.e)))
     ELSE Matched(val.pos, EntryKeyValue(key.val, val.val),
                  Merge(key.e, Merge(w.e, val.e)))

\* key:identifier() _ "=" _ val:lua_value(max_depth)
NamedEntry(s, p, d) ==
  LET key == Rule("identifier", s, p, 0)
      val == AssignTail(s, key.pos, d)
  IN IF ~key.ok THEN key
     ELSE IF ~val.ok THEN Failed(Merge(key.e, val.e))
     ELSE Matched(val.pos, EntryNameValue(key.val, val.val), Merge(key.e, val.e))

\* rule table_entry(max_depth) = _ v:( ... ) _ { v }
\* The alternatives in source order: a positional value
\* (val:lua_value(max_depth) { LuaTableEntry::Value(val) }), a bracketed key,
\* a bare name, expected!("Lua table entry").
table_entry(s, p, d) ==
  LET w1 == Ws(s, p)
      a == w1.pos
      val == Rule("lua_value_rule", s, a, d)
      keyed == Rule("KeyedEntry", s, a, d)
      named == Rule("NamedEntry", s, a, d)
      v == IF val.ok THEN Matched(val.pos, EntryValue(val.val), val.e)
           ELSE IF keyed.ok THEN [keyed EXCEPT !.e = Merge(val.e, @)]
           ELSE IF named.ok
                THEN [named EXCEPT !.e = Merge(val.e, Merge(keyed.e, @))]
           ELSE Failed(Merge(val.e, Merge(keyed.e, Merge(named.e,
                         Mark(a, <<"Lua table entry">>)))))
      w2 == Ws(s, v.pos)
  IN IF ~v.ok THEN Failed(Merge(w1.e, v.e))
     ELSE Matched(w2.pos, v.val, Merge(w1.e, Merge(v.e, w2.e)))

\* The repetition of "e ** sep" after the first element: a separator and an
\* element, as long as both match; a separator that no element follows is not
\* consumed.
MoreEntries(s, p, d, acc, e) ==
  LET sep == SepPat(s, p)
      ent == Rule("table_entry", s, sep.pos, d)
  IN IF ~sep.ok THEN Matched(p, acc, Merge(e, sep.e))
     ELSE IF ~ent.ok THEN Matched(p, acc, Merge(e, ent.e))
     ELSE NextEntry(s, p, d, acc, e, ent)

\* The entries with an entry dropped when a later one has the same key or
\* the same name, as a map would hold them.
RECURSIVE LastOfEachKey(_)
LastOfEachKey(es) ==
  IF es = <<>> THEN <<>>
  ELSE IF \E j \in 2..Len(es) :
            /\ es[j].k = es[1].k
            /\ \/ es[1].k = "keyvalue" /\ es[j].key = es[1].key
               \/ es[1].k = "namevalue" /\ es[j].name = es[1].name
       THEN LastOfEachKey(Tail(es))
       ELSE <<Head(es)>> \o LastOfEachKey(Tail(es))

\* table_entries that keeps one entry for each key.
TableEntriesByKey(s, p, d) ==
  LET first == Rule("table_entry", s, p, d)
      all == IF ~first.ok THEN Matched(p, <<>>, first.e)
             ELSE MoreEntries(s, first.pos, d, <<first.val>>, first.e)
  IN WithVal(all, LastOfEachKey(all.val))

\* rule table_entries(max_depth) = table_entry(max_depth) ** ([b',' | b';'])
table_entries(s, p, d) ==
  LET first == Rule("table_entry", s, p, d)
  IN IF ~first.ok THEN Matched(p, <<>>, first.e)
     ELSE MoreEntries(s, first.pos, d, <<first.val>>, first.e)

\* The result of a table production, counted in the measure of the
\* recursion: the production itself, and its body when the opener matched.
InTable(opened, r) ==
  [r EXCEPT !.e = [@ EXCEPT !.deep = IF opened THEN @ + 1 ELSE 1,
                            !.open = IF opened THEN @ + 1 ELSE 0]]

\* rule table(max_depth)
table(s, p, d) ==
  LET open == TableOpen(s, p, d)
      w1 == Ws(s, open.pos)
      ents == Rule("table_entries", s, w1.pos, saturating_sub(d, 1))
      w2 == Ws(s, ents.pos)
      sep == Opt(SepPat(s, w2.pos), w2.pos)
      w3 == Ws(s, sep.pos)
      close == Lit(s, w3.pos, <<"}">>)
      e == Merge(open.e, Merge(w1.e, Merge(ents.e, Merge(w2.e,
             Merge(sep.e, Merge(w3.e, close.e))))))
  IN InTable(open.ok,
             IF ~open.ok THEN open
             ELSE IF ~ents.ok THEN ents
             ELSE IF ~close.ok THEN Failed(e)
             ELSE Matched(close.pos, ents.val, e))

\* rule assignment(max_depth) = i:identifier() _ "=" _ v:lua_value(max_depth)
assignment(s, p, d) ==
  LET i == Rule("identifier", s, p, 0)
      v == AssignTail(s, i.pos, d)
  IN IF ~i.ok THEN i
     ELSE IF ~v.ok THEN Failed(Merge(i.e, v.e))
     ELSE Matched(v.pos, <<i.val, v.val>>, Merge(i.e, v.e))

\* ";"? _ : at most one semicolon after a statement, as in Lua 5.1.
SemicolonOnce(s, p, e) ==
  LET semi == Lit(s, p, <<";">>)
      w == Ws(s, semi.pos)
  IN IF ~semi.ok THEN Matched(p, <<>>, Merge(e, semi.e))
     ELSE Matched(w.pos, <<>>, Merge(e, w.e))

\* (";" _)*
RECURSIVE Semicolons(_, _, _)
Semicolons(s, p, e) ==
  LET semi == Lit(s, p, <<";">>)
      w == Ws(s, semi.pos)
  IN IF ~semi.ok THEN Matched(p, <<>>, Merge(e, semi.e))
     ELSE IF w.pos = p THEN Matched(p, <<>>, Idle(Merge(e, w.e)))
     ELSE Semicolons(s, w.pos, Merge(e, w.e))

\* An iteration that also takes separators without an assignment:
\* _ (a:assignment(max_depth))? _ (";" _)*
StatementOrSeparators(s, p, d) ==
  LET w1 == Ws(s, p)
      a == Rule("assignment", s, w1.pos, d)
      w2 == Ws(s, IF a.ok THEN a.pos ELSE w1.pos)
      semis == Semicolons(s, w2.pos, NoErr)
  IN Matched(semis.pos, IF a.ok THEN a.val ELSE <<<<>>, Nil>>,
             Merge(w1.e, Merge(a.e, Merge(w2.e, semis.e))))

\* One iteration of the repetition in rule script():
\* _ a:assignment(max_depth) _ (";" _)* { a }
Statement(s, p, d) ==
  LET w1 == Ws(s, p)
      a == Rule("assignment", s, w1.pos, d)
      w2 == Ws(s, a.pos)
      semis == Semicolons(s, w2.pos, NoErr)
  IN IF ~a.ok THEN Failed(Merge(w1.e, a.e))
     ELSE Matched(semis.pos, a.val, Merge(w1.e, Merge(a.e, Merge(w2.e, semis.e))))

\* rule script(max_depth) = ( ... )*
RECURSIVE script_rule(_, _, _, _, _)

\* The repetition after its element matched as st at position p.
NextStatement(s, p, d, acc, e, st) ==
  IF st.pos = p THEN Matched(p, acc, Idle(Merge(e, st.e)))
  ELSE script_rule(s, st.pos, d, Append(acc, st.val), Merge(e, st.e))

script_rule(s, p, d, acc, e) ==
  LET st == Statement(s, p, d)
  IN IF ~st.ok THEN Matched(p, acc, Merge(e, st.e))
     ELSE NextStatement(s, p, d, acc, e, st)

\* rule return_statement(max_depth) = _ "return" __ v:lua_value(max_depth) _
return_statement_rule(s, p, d) ==
  LET w1 == Ws(s, p)
      kw == Lit(s, w1.pos, <<"r", "e", "t", "u", "r", "n">>)
      w2 == Ws1(s, kw.pos)
      v == Rule("lua_value_rule", s, w2.pos, d)
      w3 == Ws(s, v.pos)
  IN IF ~kw.ok THEN Failed(Merge(w1.e, kw.e))
     ELSE IF ~w2.ok THEN Failed(Merge(w1.e, w2.e))
     ELSE IF ~v.ok THEN Failed(Merge(w1.e, Merge(w2.e, v.e)))
     ELSE Matched(w3.pos, v.val, Merge(w1.e, Merge(w2.e, Merge(v.e, w3.e))))

Rule(name, s, p, arg) ==
  CASE name = "identifier" -> identifier(s, p)
    [] name = "numbers" -> numbers(s, p)
    [] name = "DecFloatSyntax" -> DecFloatSyntax(s, p)
    [] name = "HexFloatSyntax" -> HexFloatSyntax(s, p)
    [] name = "HexInteger" -> HexInteger(s, p)
    [] name = "DecInteger" -> DecInteger(s, p)
    [] name = "escaped_char" -> escaped_char(s, p)
    [] name = "single_quoted_string" -> single_quoted_string(s, p)
    [] name = "double_quoted_string" -> double_quoted_string(s, p)
    [] name = "long_string" -> long_string(s, p)
    [] name = "longer_string" -> longer_string(s, p, arg)
    [] name = "string" -> string(s, p)
    [] name = "lua_value_rule" -> lua_value_rule(s, p, arg)
    [] name = "KeyedEntry" -> KeyedEntry(s, p, arg)
    [] name = "NamedEntry" -> NamedEntry(s, p, arg)
    [] name = "table_entry" -> table_entry(s, p, arg)
    [] name = "table_entries" -> table_entries(s, p, arg)
    [] name = "table" -> table(s, p, arg)
    [] name = "assignment" -> assignment(s, p, arg)
    [] name = "return_statement_rule" -> return_statement_rule(s, p, arg)
    [] name = "script_rule" -> script_rule(s, p, arg, <<>>, NoErr)

\* The public function generated for a "pub rule": the rule is applied at
\* offset 0, the match must end at the end of the input (otherwise "EOF" is
\* marked where it ended), and a failure is returned as a ParseError holding
\* the farthest failure position and what was expected there.
ParseError(e) ==
  LET m == Merge([p |-> 0, x |-> {}, deep |-> 0, open |-> 0, idle |-> FALSE], e)
  IN [ok |-> FALSE, val |-> <<>>, location |-> m.p, expected |-> m.x]

\* An entry point that is content with a match of the beginning of the input.
EntryPointAnyPrefix(s, r) ==
  IF r.ok THEN [ok |-> TRUE, val |-> r.val, location |-> -1, expected |-> {}]
  ELSE ParseError(r.e)

EntryPoint(s, r) ==
  IF r.ok /\ r.pos = Len(s)
  THEN [ok |-> TRUE, val |-> r.val, location |-> -1, expected |-> {}]
  ELSE IF r.ok THEN ParseError(Merge(r.e, Mark(r.pos, <<"EOF">>)))
  ELSE ParseError(r.e)

lua_value(s, d) == EntryPoint(s, Rule("lua_value_rule", s, 0, d))
return_statement(s, d) == EntryPoint(s, Rule("return_statement_rule", s, 0, d))
script(s, d) == EntryPoint(s, Rule("script_rule", s, 0, d))

\* Where the caller of an entry point is after the call: the call has
\* returned when the rule came to an end, none of its repetitions iterating
\* without consuming a byte.
AfterCall(r) == IF r.e.idle THEN "parsing" ELSE "parsed"

\* ---------------------------------------------------------------------
\* Projection of a parsed value to a sequence (de.rs)
\* ---------------------------------------------------------------------

\* How deep the tables of a value are nested: 0 for a scalar, 1 for a table
\* of scalars.  A table written in a bracketed key counts like one written as
\* a value.
RECURSIVE Depth(_)
Depth(v) ==
  IF v.t # "table" THEN 0
  ELSE 1 + Max({0} \cup {Depth(v.e[k].val) : k \in 1..Len(v.e)}
                   \cup {Depth(v.e[k].key) :
                           k \in {j \in 1..Len(v.e) : v.e[j].k = "keyvalue"}})

\* Script => script(b, max_depth)?.into_iter().collect(): the assignments
\* become the named entries of one table.
CollectScript(pairs) ==
  Table([k \in 1..Len(pairs) |-> EntryNameValue(pairs[k][1], pairs[k][2])])

\* An i64 as a number of the model checker, for the values that are small
\* enough to be listed: fewer than half of the limbs carry magnitude.
SmallLimbs == (I64Limbs \div 2) - 1

IsSmall(v) ==
  \/ \A k \in 1..(I64Limbs - SmallLimbs) : v[k] = 0
  \/ /\ \A k \in 1..(I64Limbs - SmallLimbs) : v[k] = 15
     /\ v[I64Limbs - SmallLimbs + 1] >= 8

RECURSIVE ToNat(_)
ToNat(v) == IF v = <<>> THEN 0 ELSE 16 * ToNat(SubSeq(v, 1, Len(v) - 1)) + v[Len(v)]

ToInt(v) ==
  IF v[1] >= 8 THEN 0 - ToNat(StripZeros(Negate(v))) ELSE ToNat(StripZeros(v))

I64Max == [k \in 1..I64Limbs |-> IF k = 1 THEN 7 ELSE 15]

IsIntegerKeyed(entry) == entry.k = "keyvalue" /\ entry.key.t = "int"

\* The first loop of SeqDeserializer::new: the first entry that is not
\* positional decides; 0 when every entry is positional.
FirstKeyed(vec) ==
  IF \A k \in 1..Len(vec) : vec[k].k = "value" THEN 0
  ELSE Min({k \in 1..Len(vec) : vec[k].k # "value"})

\* The second loop: h, i and highest_key after the entries from index k on.
\* The keys are numbers of the model checker here.
RECURSIVE Renumber(_, _, _, _, _)
Renumber(vec, k, h, i, highest_key) ==
  IF k > Len(vec) THEN [h |-> h, highest_key |-> highest_key]
  ELSE IF vec[k].k = "value"
       THEN Renumber(vec, k + 1,
                     [x \in DOMAIN h \cup {i} |-> IF x = i THEN vec[k].val ELSE h[x]],
                     i + 1,
                     IF i + 1 > highest_key THEN i + 1 ELSE highest_key)
       ELSE LET key == ToInt(vec[k].key.v)
            IN Renumber(vec, k + 1,
                        [x \in DOMAIN h \cup {key} |->
                           IF x = key THEN vec[k].val ELSE h[x]],
                        i,
                        IF key > highest_key THEN key ELSE highest_key)

\* The third loop: the entries of h in key order, gaps filled with nil.
RECURSIVE FillGaps(_, _, _, _)
FillGaps(h, keys, next_key, out) ==
  IF keys = {} THEN out
  ELSE LET k == Min(keys)
           gap == IF k > next_key THEN [j \in 1..(k - next_key) |-> Nil] ELSE <<>>
       IN FillGaps(h, keys \ {k}, k + 1, out \o gap \o <<h[k]>>)

\* SeqDeserializer::new(vec): the set of outcomes.  "ok" carries the
\* elements the iterator will yield, "err" the error value; "panic" is the
\* unreachable!() of the second loop, the overflow of highest_key + 1 or the
\* capacity overflow of Vec::with_capacity.  With a positive key too large to
\* list and below i64::MAX, what happens depends on the size of an element
\* and on the allocator: the capacity overflows (panic), the allocation fails
\* (abort), or a vector too large to list is built.  A negative key too large
\* to list asks for no memory; the order of the elements is not listed then.
SeqDeserializer_new(vec) ==
  LET first == FirstKeyed(vec)
      r == Renumber(vec, 1, <<>>, 1, 0)
      keyed == {k \in 1..Len(vec) : vec[k].k = "keyvalue"}
  IN IF first # 0 /\ ~IsIntegerKeyed(vec[first])
     THEN {[kind |-> "err", msg |-> "invalid type", vec |-> <<>>]}
     ELSE IF first = 0
     THEN {[kind |-> "ok", msg |-> "",
            vec |-> [k \in 1..Len(vec) |-> vec[k].val]]}
     ELSE IF \E k \in 1..Len(vec) : vec[k].k # "value" /\ ~IsIntegerKeyed(vec[k])
     THEN {[kind |-> "panic", msg |-> "unreachable", vec |-> <<>>]}
     ELSE IF \E k \in keyed : vec[k].key.v = I64Max
     THEN {[kind |-> "panic", msg |-> "overflow", vec |-> <<>>]}
     ELSE IF \E k \in keyed : ~IsSmall(vec[k].key.v) /\ vec[k].key.v[1] < 8
     THEN {[kind |-> "panic", msg |-> "capacity overflow", vec |-> <<>>],
           [kind |-> "abort", msg |-> "allocation", vec |-> <<>>],
           [kind |-> "ok", msg |-> "too large to list", vec |-> <<>>]}
     ELSE IF \E k \in keyed : ~IsSmall(vec[k].key.v)
     THEN {[kind |-> "ok", msg |-> "order not listed", vec |-> <<>>]}
     ELSE {[kind |-> "ok", msg |-> "",
            vec |-> FillGaps(r.h, DOMAIN r.h, 1, <<>>)]}

\* visit_array(array, visitor) with a visitor that takes every element
\* (Vec<T>): nothing remains, so the outcome is that of SeqDeserializer::new.
visit_array(array) == SeqDeserializer_new(array)

\* LuaValue::deserialize_seq
deserialize_seq(v) ==
  IF v.t = "table" THEN visit_array(v.e)
  ELSE {[kind |-> "err", msg |-> "invalid type", vec |-> <<>>]}

\* ---------------------------------------------------------------------
\* The f64 that a float literal stands for (str::parse::<f64>, strtod)
\* ---------------------------------------------------------------------

\* The index of the first element of q that is in set, 0 when there is none.
IndexOf(q, set) ==
  LET at == {k \in 1..Len(q) : q[k] \in set} IN IF at = {} THEN 0 ELSE Min(at)

\* A short string of decimal digits as a number.
RECURSIVE DecToNat(_)
DecToNat(ds) ==
  IF ds = <<>> THEN 0 ELSE 10 * DecToNat(SubSeq(ds, 1, Len(ds) - 1)) + DecVal(ds[Len(ds)])

\* The exponent of a literal: an optional sign and decimal digits.  An
\* exponent of more than six significant digits is beyond every f64 whatever
\* the mantissa of a literal of the model, and is capped.
ExponentOfDigits(ex, ds) ==
  LET lead == IndexOf(ds, Digits \ {"0"})
      sig == IF lead = 0 THEN <<>> ELSE SubSeq(ds, lead, Len(ds))
      n == IF Len(sig) > 6 THEN 1000000 ELSE DecToNat(sig)
  IN IF ex # <<>> /\ Head(ex) = "-" THEN 0 - n ELSE n

\* The exponent from its bytes ex.
ExponentOf(ex) == ExponentOfDigits(ex, Unsigned(ex))

\* The parts of a float literal after its sign and the skip bytes of its
\* prefix: the digits before and after the radix point, and the exponent
\* that follows one of the marks.
PartsOfMantissa(mant, exp) ==
  LET dot == IndexOf(mant, {"."})
  IN [int |-> IF dot = 0 THEN mant ELSE SubSeq(mant, 1, dot - 1),
      frac |-> IF dot = 0 THEN <<>> ELSE SubSeq(mant, dot + 1, Len(mant)),
      exp |-> exp]

\* The parts of body, whose mark is at e (0: there is none).
PartsAt(body, e) ==
  PartsOfMantissa(IF e = 0 THEN body ELSE SubSeq(body, 1, e - 1),
                  IF e = 0 THEN 0 ELSE ExponentOf(SubSeq(body, e + 1, Len(body))))

\* The parts of body, which is the literal after its sign and prefix.
PartsOfBody(body, marks) == PartsAt(body, IndexOf(body, marks))

\* The parts of the literal src.
FloatParts(src, skip, marks) ==
  PartsOfBody(SubSeq(Unsigned(src), skip + 1, Len(Unsigned(src))), marks)

\* a < b for strings of decimal digits of the same length.
DigitsLess(a, b) ==
  \E k \in 1..Len(a) :
    /\ DecVal(a[k]) < DecVal(b[k])
    /\ \A i \in 1..(k - 1) : a[i] = b[i]

\* The first seventeen digits of the two decimal numbers at which the
\* rounding of an f64 changes class: 2^1024 - 2^970 = 1.7976931348623158079..e308
\* (this and everything above rounds to infinity) and 2^-1075 =
\* 2.4703282292062327208..e-324 (this and everything below rounds to zero).
F64MaxHalfway == <<"1", "7", "9", "7", "6", "9", "3", "1", "3", "4", "8", "6", "2", "3", "1", "5", "8">>
F64MinHalfway == <<"2", "4", "7", "0", "3", "2", "8", "2", "2", "9", "2", "0", "6", "2", "3", "2", "7">>

\* The class of the f64 nearest to a decimal float literal: "zero", "fin"
\* (finite and not zero), "inf", or "edge" when the first seventeen digits do
\* not decide between two of them.
DecClassAt(digs, lead, shift) ==
  LET \* the literal is at least 10^m and less than 10^(m+1)
      m == shift - lead
      sig == [k \in 1..Len(F64MaxHalfway) |->
                IF lead + k - 1 <= Len(digs) THEN digs[lead + k - 1] ELSE "0"]
  IN IF lead = 0 THEN "zero"
     ELSE IF m > 308 THEN "inf"
     ELSE IF m = 308
     THEN (IF DigitsLess(sig, F64MaxHalfway) THEN "fin"
           ELSE IF sig = F64MaxHalfway THEN "edge" ELSE "inf")
     ELSE IF m < -324 THEN "zero"
     ELSE IF m = -324
     THEN (IF DigitsLess(sig, F64MinHalfway) THEN "zero"
           ELSE IF sig = F64MinHalfway THEN "edge" ELSE "fin")
     ELSE "fin"

\* The class from the parts: the digits, where the first digit that is not
\* zero stands, and what that place adds to the exponent.
DecClassOfParts(parts) ==
  DecClassAt(parts.int \o parts.frac,
             IndexOf(parts.int \o parts.frac, Digits \ {"0"}),
             Len(parts.int) + parts.exp)

\* The class of the decimal float literal src.
DecClass(src) == DecClassOfParts(FloatParts(src, 0, {"e", "E"}))

\* The binary exponent of the smallest positive f64, 2^-1074.
F64MinBit == 0 - (F64MaxBits + F64Mantissa - 3)

\* The class of the f64 nearest to a hexadecimal float literal (ties to
\* even): the literal is at least 2^b and less than 2^(b+1).
HexClassAt(bits, lead, shift) ==
  LET b == shift - lead
      sig == SubSeq(bits, lead, Len(bits))
      power == \A k \in 2..Len(sig) : sig[k] = 0
      carries == /\ Len(sig) > F64Mantissa
                 /\ \A k \in 1..(F64Mantissa + 1) : sig[k] = 1
  IN IF lead = 0 THEN "zero"
     ELSE IF b >= F64MaxBits THEN "inf"
     ELSE IF b = F64MaxBits - 1 /\ carries THEN "inf"
     ELSE IF b < F64MinBit - 1 THEN "zero"
     ELSE IF b = F64MinBit - 1 /\ power THEN "zero"
     ELSE "fin"

\* The class from the bits of the digits.
HexClassOfBits(bits, shift) == HexClassAt(bits, IndexOf(bits, {1}), shift)

\* The class from the parts.
HexClassOfParts(parts) ==
  HexClassOfBits(LimbsToBits([k \in 1..Len(parts.int \o parts.frac) |->
                                HexVal((parts.int \o parts.frac)[k])]),
                 4 * Len(parts.int) + parts.exp)

\* The class of the hexadecimal float literal src.
HexClass(src) == HexClassOfParts(FloatParts(src, 2, {"p", "P"}))

\* The class of a Float: "nan", "inf", "zero", "fin" or "edge".
FloatClass(v) ==
  IF v.cls = "dec" THEN DecClass(v.mag)
  ELSE IF v.cls = "hex" THEN HexClass(v.mag)
  ELSE v.cls

\* ---------------------------------------------------------------------
\* The formatter (formatter.rs, CompactFormatter)
\* ---------------------------------------------------------------------

\* static ESCAPE: the letter of the escape of a byte, "" (0 in the table)
\* for a byte that is not escaped.
ESCAPE(byte) ==
  LET n == Ord[byte]
  IN IF n = 7 THEN "a" ELSE IF n = 8 THEN "b" ELSE IF n = 9 THEN "t"
     ELSE IF n = 10 THEN "n" ELSE IF n = 11 THEN "v" ELSE IF n = 12 THEN "f"
     ELSE IF n = 13 THEN "r" ELSE IF n < 32 THEN "x"
     ELSE IF n = 34 THEN "\"" ELSE IF n = 92 THEN "\\" ELSE ""

HEX_DIGITS == <<"0", "1", "2", "3", "4", "5", "6", "7", "8", "9", "a", "b", "c", "d", "e", "f">>

\* Formatter::write_byte_escape
write_byte_escape(escape, byte) ==
  IF escape = "x"
  THEN <<"\\", "x", HEX_DIGITS[(Ord[byte] \div 16) + 1], HEX_DIGITS[(Ord[byte] % 16) + 1]>>
  ELSE <<"\\", escape>>

\* The loop of format_escaped_bytes_contents: i bytes of the run that
\* starts bytes are known to need no escape; out is what was written.
RECURSIVE FormatEscapedLoop(_, _, _)
FormatEscapedLoop(bytes, i, out) ==
  IF i >= Len(bytes) THEN out \o bytes
  ELSE LET string_run == SubSeq(bytes, 1, i)
           byte == bytes[i + 1]
           rest == SubSeq(bytes, i + 2, Len(bytes))
           escape == ESCAPE(byte)
       IN IF escape = "" THEN FormatEscapedLoop(bytes, i + 1, out)
          ELSE FormatEscapedLoop(rest, 0,
                                 out \o string_run \o write_byte_escape(escape, byte))

\* format_escaped_bytes_contents(writer, formatter, bytes)
format_escaped_bytes_contents(bytes) == FormatEscapedLoop(bytes, 0, <<>>)

\* Long division by ten of a number given as limbs: quotient and remainder.
DivTen(a) ==
  LET r[k \in 0..Len(a)] == IF k = 0 THEN 0 ELSE (r[k - 1] * 16 + a[k]) % 10
  IN [q |-> [k \in 1..Len(a) |-> (r[k - 1] * 16 + a[k]) \div 10], r |-> r[Len(a)]]

RECURSIVE ToStringLoop(_, _)
ToStringLoop(a, out) ==
  IF \A k \in 1..Len(a) : a[k] = 0 THEN out
  ELSE LET d == DivTen(a) IN ToStringLoop(d.q, <<Chr[48 + d.r]>> \o out)

\* Formatter::write_i64: value.to_string()
write_i64(value) ==
  IF value = I64Zero THEN <<"0">>
  ELSE IF value[1] >= 8 THEN <<"-">> \o ToStringLoop(Negate(value), <<>>)
  ELSE ToStringLoop(value, <<>>)

\* hexfloat2::format(value): the text is that of the hexfloat2 crate and is
\* not listed; it stands here as one element that is no byte.
hexfloat_format(value) == <<"hexfloat2::format">>

\* The text Formatter::write_f64 writes for a value of class c.  For a
\* literal at a rounding boundary the branch taken is not decided here and
\* the text is not listed.
F64Text(c, value) ==
  IF c = "zero" THEN <<"0", "x", "0", "p", "0">>
  ELSE IF c = "fin" THEN hexfloat_format(value)
  ELSE IF c = "nan" THEN <<"(", "0", "/", "0", ")">>
  ELSE IF c = "inf" THEN (IF value.neg THEN <<"-", "1", "e", "9", "9", "9", "9">> ELSE <<"1", "e", "9", "9", "9", "9">>)
  ELSE <<"f64 at a rounding boundary">>

\* Formatter::write_f64
write_f64(value) == F64Text(FloatClass(value), value)

\* Formatter::write_luanumber
write_luanumber(value) ==
  IF value.t = "int" THEN write_i64(value.v) ELSE write_f64(value)

Written(text) == [ok |-> TRUE, text |-> text, err |-> ""]
InvalidLuaIdentifier == [ok |-> FALSE, text |-> <<>>, err |-> "InvalidLuaIdentifier"]

RECURSIVE to_writer(_)

\* An entry writer that writes the name of a named entry as it is.
EntryWrittenUnchecked(entry, first) ==
  LET begin_table_entry == IF first THEN <<>> ELSE <<",">>
      value == to_writer(entry.val)
  IN IF entry.k = "value"
     THEN (IF ~value.ok THEN value ELSE Written(begin_table_entry \o value.text))
     ELSE IF entry.k = "namevalue"
     THEN (IF ~value.ok THEN value
           ELSE Written(begin_table_entry \o entry.name \o <<"=">> \o value.text))
     ELSE LET key == to_writer(entry.key)
          IN IF ~key.ok THEN key
             ELSE IF ~value.ok THEN value
             ELSE Written(begin_table_entry \o <<"[">> \o key.text \o <<"]", "=">>
                            \o value.text)

\* LuaTableEntry::to_writer(writer, formatter, first)
LuaTableEntry_to_writer(entry, first) ==
  LET begin_table_entry == IF first THEN <<>> ELSE <<",">>
      value == to_writer(entry.val)
  IN IF entry.k = "value"
     THEN (IF ~value.ok THEN value ELSE Written(begin_table_entry \o value.text))
     ELSE IF entry.k = "namevalue"
     THEN (IF ~valid_lua_identifier(entry.name) THEN InvalidLuaIdentifier
           ELSE IF ~value.ok THEN value
           ELSE Written(begin_table_entry \o entry.name \o <<"=">> \o value.text))
     ELSE LET key == to_writer(entry.key)
          IN IF ~key.ok THEN key
             ELSE IF ~value.ok THEN value
             ELSE Written(begin_table_entry \o <<"[">> \o key.text \o <<"]", "=">>
                            \o value.text)

\* The loop over the entries of a table in LuaValue::to_writer.
RECURSIVE WriteEntries(_, _, _)
WriteEntries(entries, k, out) ==
  IF k > Len(entries) THEN Written(out \o <<"}">>)
  ELSE LET entry == LuaTableEntry_to_writer(entries[k], k = 1)
       IN IF ~entry.ok THEN entry ELSE WriteEntries(entries, k + 1, out \o entry.text)

\* LuaValue::to_writer(writer, formatter) with the CompactFormatter: what
\* was written, or the error.
to_writer(v) ==
  IF v.t = "nil" THEN Written(<<"n", "i", "l">>)
  ELSE IF v.t = "bool" THEN Written(IF v.b THEN <<"t", "r", "u", "e">> ELSE <<"f", "a", "l", "s", "e">>)
  ELSE IF v.t \in {"int", "float"} THEN Written(write_luanumber(v))
  ELSE IF v.t = "str" THEN Written(format_escaped_bytes_contents(v.s))
  ELSE WriteEntries(v.e, 1, <<"{">>)

\* ---------------------------------------------------------------------
\* Projection of a parsed value to a map with integer keys (de.rs)
\* ---------------------------------------------------------------------

\* A next_key_seed that counts every entry, so that a positional entry gets
\* its place among all the entries as its key.
NextKeyCountingEveryEntry(entry, next_numeric_index) ==
  IF entry.k = "value"
  THEN [ok |-> TRUE, key |-> Small(next_numeric_index, I64Limbs),
        next |-> next_numeric_index + 1]
  ELSE IF IsIntegerKeyed(entry)
  THEN [ok |-> TRUE, key |-> entry.key.v, next |-> next_numeric_index + 1]
  ELSE [ok |-> FALSE, key |-> I64Zero, next |-> next_numeric_index]

\* MapDeserializer::next_key_seed with the key seed of an i64 (the entries
\* of a table are few here, next_numeric_index stays below 16): the key of
\* the entry and the index for the next positional entry.  A key that is not
\* an integer, and a name, are an "invalid type" error of the key's
\* deserializer (deserialize_numeric_key!, LuaNumber::deserialize_i64).
next_key_seed(entry, next_numeric_index) ==
  IF entry.k = "value"
  THEN [ok |-> TRUE, key |-> Small(next_numeric_index, I64Limbs),
        next |-> next_numeric_index + 1]
  ELSE IF IsIntegerKeyed(entry)
  THEN [ok |-> TRUE, key |-> entry.key.v, next |-> next_numeric_index]
  ELSE [ok |-> FALSE, key |-> I64Zero, next |-> next_numeric_index]

\* visitor.visit_map(&mut deserializer) with the visitor of a BTreeMap<i64, V>
\* whose V takes every value: the entries are taken one by one from the k-th
\* on and inserted, a later one replacing an earlier one with the same key.
RECURSIVE visit_map(_, _, _, _)
visit_map(entries, k, next_numeric_index, map) ==
  IF k > Len(entries) THEN [kind |-> "ok", msg |-> "", map |-> map]
  ELSE LET key == next_key_seed(entries[k], next_numeric_index)
       IN IF ~key.ok THEN [kind |-> "err", msg |-> "invalid type", map |-> <<>>]
          ELSE visit_map(entries, k + 1, key.next,
                         [x \in DOMAIN map \cup {key.key} |->
                            IF x = key.key THEN entries[k].val ELSE map[x]])

\* LuaValue::deserialize_map and LuaTableWrapper::deserialize_any: the
\* visitor takes every entry, so none remains.
deserialize_map(v) ==
  IF v.t = "table" THEN visit_map(v.e, 1, 1, <<>>)
  ELSE [kind |-> "err", msg |-> "invalid type", map |-> <<>>]

\* ---------------------------------------------------------------------
\* Conversion of a value to JSON (serde_json.rs)
\* ---------------------------------------------------------------------

\* serde_json::Value
JsonNull == [j |-> "null"]
JsonBool(b) == [j |-> "bool", b |-> b]
JsonNumber(n) == [j |-> "number", n |-> n]
JsonString(str) == [j |-> "string", s |-> str]
JsonArray(array) == [j |-> "array", a |-> array]
JsonObject(object) == [j |-> "object", o |-> object]

\* What to_json_value returns.  The field both tells whether, after some
\* entry of a table on the way, the pending array and the pending object
\* both held something.
JsonOk(v) == [kind |-> "json", msg |-> "", json |-> v, both |-> FALSE]
JsonError(e) == [kind |-> "json error", msg |-> e, json |-> JsonNull, both |-> FALSE]

\* The outcome r of a conversion on the way of which the pending array and
\* the pending object were seen as seen tells.
Pending(seen, r) == [r EXCEPT !.both = @ \/ seen]

\* std::str::from_utf8 accepts the bytes (given as their codes) from the
\* k-th on: well-formed UTF-8, no overlong forms, no surrogates, nothing
\* above U+10FFFF.
RECURSIVE Utf8Valid(_, _)
Utf8Valid(b, k) ==
  IF k > Len(b) THEN TRUE
  ELSE LET c == b[k]
           cont(i, lo, hi) == k + i <= Len(b) /\ b[k + i] >= lo /\ b[k + i] <= hi
       IN IF c < 128 THEN Utf8Valid(b, k + 1)
          ELSE IF c >= 194 /\ c <= 223
          THEN cont(1, 128, 191) /\ Utf8Valid(b, k + 2)
          ELSE IF c >= 224 /\ c <= 239
          THEN /\ cont(1, IF c = 224 THEN 160 ELSE 128, IF c = 237 THEN 159 ELSE 191)
               /\ cont(2, 128, 191)
               /\ Utf8Valid(b, k + 3)
          ELSE IF c >= 240 /\ c <= 244
          THEN /\ cont(1, IF c = 240 THEN 144 ELSE 128, IF c = 244 THEN 143 ELSE 191)
               /\ cont(2, 128, 191)
               /\ cont(3, 128, 191)
               /\ Utf8Valid(b, k + 4)
          ELSE FALSE

\* from_utf8_cow(v): whether the bytes are a str.
from_utf8_cow(v) == Utf8Valid([k \in 1..Len(v) |-> Ord[v[k]]], 1)

\* f64's Display for a value of class c.  The digits of a float that is
\* finite and not zero are not listed.
F64Display(c, k) ==
  IF c = "zero" THEN (IF k.neg THEN <<"-", "0">> ELSE <<"0">>)
  ELSE IF c = "inf" THEN (IF k.neg THEN <<"-", "i", "n", "f">> ELSE <<"i", "n", "f">>)
  ELSE IF c = "nan" THEN <<"N", "a", "N">>
  ELSE <<"f64::to_string">>

\* LuaNumber::to_string (Display)
LuaNumber_to_string(k) ==
  IF k.t = "int" THEN write_i64(k.v) ELSE F64Display(FloatClass(k), k)

\* JsonNumber::try_from(f64) for a value of class c
JsonNumberOfClass(c, value) ==
  IF c = "inf"
  THEN JsonError(IF value.neg THEN "NegativeInfinity" ELSE "PositiveInfinity")
  ELSE IF c = "nan" THEN JsonError("NaN")
  ELSE IF c = "edge" THEN JsonError("f64 at a rounding boundary")
  ELSE JsonOk(JsonNumber(value))

\* JsonNumber::try_from(LuaNumber)
JsonNumber_try_from(value) ==
  IF value.t = "int" THEN JsonOk(JsonNumber(value))
  ELSE JsonNumberOfClass(FloatClass(value), value)

\* object.insert(key, v)
JsonInsert(object, key, v) ==
  [x \in DOMAIN object \cup {key} |-> IF x = key THEN v ELSE object[x]]

\* array_next_idx.to_string(); the index stays below 16 here.
IndexKey(array_next_idx) == write_i64(Small(array_next_idx, I64Limbs))

\* move_array_to_object that leaves array_next_idx where it was.
MoveArrayKeepingIndex(array, array_next_idx, object) ==
  [object |-> [x \in DOMAIN object \cup {IndexKey(array_next_idx + i - 1) : i \in 1..Len(array)} |->
                 IF \E i \in 1..Len(array) : x = IndexKey(array_next_idx + i - 1)
                 THEN array[CHOOSE i \in 1..Len(array) : x = IndexKey(array_next_idx + i - 1)]
                 ELSE object[x]],
   array |-> <<>>,
   array_next_idx |-> array_next_idx]

\* move_array_to_object that copies the entries and leaves them in the
\* array.
MoveArrayCopying(array, array_next_idx, object) ==
  [object |-> [x \in DOMAIN object \cup {IndexKey(array_next_idx + i - 1) : i \in 1..Len(array)} |->
                 IF \E i \in 1..Len(array) : x = IndexKey(array_next_idx + i - 1)
                 THEN array[CHOOSE i \in 1..Len(array) : x = IndexKey(array_next_idx + i - 1)]
                 ELSE object[x]],
   array |-> array,
   array_next_idx |-> array_next_idx + Len(array)]

\* move_array_to_object(array, array_next_idx, object): the object, the
\* array (taken, so empty) and the index afterwards.
move_array_to_object(array, array_next_idx, object) ==
  [object |-> [x \in DOMAIN object \cup {IndexKey(array_next_idx + i - 1) : i \in 1..Len(array)} |->
                 IF \E i \in 1..Len(array) : x = IndexKey(array_next_idx + i - 1)
                 THEN array[CHOOSE i \in 1..Len(array) : x = IndexKey(array_next_idx + i - 1)]
                 ELSE object[x]],
   array |-> <<>>,
   array_next_idx |-> array_next_idx + Len(array)]

RECURSIVE to_json_value(_)

\* The key of a KeyValue entry as a String, or the error.
JsonKey(key) ==
  IF key.t = "str"
  THEN (IF from_utf8_cow(key.s) THEN [ok |-> TRUE, k |-> key.s, err |-> ""]
        ELSE [ok |-> FALSE, k |-> <<>>, err |-> "Utf8Error"])
  ELSE IF key.t = "nil" THEN [ok |-> TRUE, k |-> <<"n", "i", "l">>, err |-> ""]
  ELSE IF key.t = "bool"
  THEN [ok |-> TRUE, k |-> IF key.b THEN <<"t", "r", "u", "e">> ELSE <<"f", "a", "l", "s", "e">>, err |-> ""]
  ELSE IF key.t = "table" THEN [ok |-> FALSE, k |-> <<>>, err |-> "TableKeyedWithTable"]
  ELSE [ok |-> TRUE, k |-> LuaNumber_to_string(key), err |-> ""]

\* The loop over the entries of a table in to_json_value, from the k-th
\* entry on, and the match on what was collected.
RECURSIVE JsonEntries(_, _, _, _, _)

\* One turn of the loop: entry is the k-th entry, v its value converted,
\* key its key as a String, moved what move_array_to_object gives.
JsonEntry(items, k, object, array, array_next_idx, entry, v, key, moved) ==
  Pending(v.both,
    IF entry.k = "value"
    THEN (IF v.kind # "json" THEN v
          ELSE IF DOMAIN object = {}
          THEN JsonEntries(items, k + 1, object, Append(array, v.json), array_next_idx)
          ELSE JsonEntries(items, k + 1,
                           JsonInsert(object, IndexKey(array_next_idx), v.json),
                           array, array_next_idx + 1))
    ELSE IF ~key.ok THEN JsonError(key.err)
    ELSE IF v.kind # "json" THEN v
    ELSE JsonEntries(items, k + 1, JsonInsert(moved.object, key.k, v.json),
                     moved.array, moved.array_next_idx))

\* At the call for the k-th entry the pending array and object are as the
\* entries before it left them.
JsonEntries(items, k, object, array, array_next_idx) ==
  Pending(DOMAIN object # {} /\ array # <<>>,
    IF k > Len(items)
    THEN (IF (DOMAIN object = {}) = (array = <<>>)
          THEN [kind |-> "panic", msg |-> "unreachable", json |-> JsonNull, both |-> FALSE]
          ELSE IF array = <<>> THEN JsonOk(JsonObject(object))
          ELSE JsonOk(JsonArray(array)))
    ELSE JsonEntry(items, k, object, array, array_next_idx, items[k],
                   to_json_value(items[k].val),
                   IF items[k].k = "keyvalue" THEN JsonKey(items[k].key)
                   ELSE IF items[k].k = "namevalue"
                   THEN [ok |-> TRUE, k |-> items[k].name, err |-> ""]
                   ELSE [ok |-> TRUE, k |-> <<>>, err |-> ""],
                   move_array_to_object(array, array_next_idx, object)))

\* to_json_value(value, JsonConversionOptions::default())
to_json_value(value) ==
  IF value.t = "nil" THEN JsonOk(JsonNull)
  ELSE IF value.t = "str"
  THEN (IF from_utf8_cow(value.s) THEN JsonOk(JsonString(value.s))
        ELSE JsonError("Utf8Error"))
  ELSE IF value.t = "bool" THEN JsonOk(JsonBool(value.b))
  ELSE IF value.t \in {"int", "float"} THEN JsonNumber_try_from(value)
  ELSE IF value.e = <<>> THEN JsonOk(JsonObject(<<>>))
  ELSE JsonEntries(value.e, 1, <<>>, <<>>, 1)

\* ---------------------------------------------------------------------
\* The state machine: an input and a depth budget are given, one of the
\* three entry points parses the input, and the parsed value may then be
\* projected to a sequence or to a map as from_slice::<Vec<T>> and
\* from_slice::<BTreeMap<i64, V>> do, written out by the formatter, or
\* converted to JSON.
\* A call of an entry point returns (pc = "parsed") when its rule comes to
\* an end; a call whose rule does not end stays in the parser for ever
\* (pc = "parsing").
\* ---------------------------------------------------------------------

NoResult == [ok |-> FALSE, val |-> <<>>, location |-> -1, expected |-> {}]
NoOutcome == [kind |-> "none", msg |-> "", vec |-> <<>>]

\* A call of the entry point f, whose rule gave r when applied to the input
\* at offset 0: the caller gets what the entry point makes of r.
Call(f, r) ==
  /\ pc = "ready"
  /\ result' = EntryPoint(input, r)
  /\ format' = f
  /\ pc' = AfterCall(r)
  /\ UNCHANGED <<input, max_depth, outcome>>

\* lua_value(input, max_depth)
ParseValue == Call("Value", Rule("lua_value_rule", input, 0, max_depth))

\* return_statement(input, max_depth)
ParseReturn == Call("Return", Rule("return_statement_rule", input, 0, max_depth))

\* script(input, max_depth)
ParseScript == Call("Script", Rule("script_rule", input, 0, max_depth))

\* The value from_slice hands to Deserialize::deserialize.
Parsed == IF format = "Script" THEN CollectScript(result.val) ELSE result.val

\* from_slice::<Vec<T>>: the parse error is returned ("?"), otherwise the
\* value is projected.
DeserializeSeq ==
  /\ pc = "parsed"
  /\ \E o \in (IF result.ok THEN deserialize_seq(Parsed)
               ELSE {[kind |-> "err", msg |-> "parse", vec |-> <<>>]}) :
       outcome' = o
  /\ pc' = "done"
  /\ UNCHANGED <<input, max_depth, format, result>>

\* What the caller of to_writer holds afterwards.
WriteOutcome(w) ==
  [kind |-> IF w.ok THEN "written" ELSE "write error", msg |-> w.err, text |-> w.text]

\* value.to_writer(&mut buf, &mut CompactFormatter) for the parsed value:
\* what the formatter wrote, or its error.
Format ==
  /\ pc = "parsed"
  /\ result.ok
  /\ outcome' = WriteOutcome(to_writer(Parsed))
  /\ pc' = "done"
  /\ UNCHANGED <<input, max_depth, format, result>>

\* from_slice::<BTreeMap<i64, V>>: the parse error is returned ("?"),
\* otherwise the value is projected to a map.
DeserializeMap ==
  /\ pc = "parsed"
  /\ outcome' = IF result.ok THEN deserialize_map(Parsed)
                ELSE [kind |-> "err", msg |-> "parse", map |-> <<>>]
  /\ pc' = "done"
  /\ UNCHANGED <<input, max_depth, format, result>>

\* to_json_value(value, JsonConversionOptions::default()) for the parsed
\* value.
ToJson ==
  /\ pc = "parsed"
  /\ result.ok
  /\ outcome' = to_json_value(Parsed)
  /\ pc' = "done"
  /\ UNCHANGED <<input, max_depth, format, result>>

Next ==
  \/ ParseValue \/ ParseReturn \/ ParseScript
  \/ DeserializeSeq \/ DeserializeMap \/ Format \/ ToJson

\* ---------------------------------------------------------------------
\* Inputs
\* ---------------------------------------------------------------------

\* The budgets given to the entry points.
MaxBudget == 4
Budgets == 0..MaxBudget


\* The document for each entry point that holds the value text x.
ValueDoc(x) == x
ReturnDoc(x) == <<"r", "e", "t", "u", "r", "n", " ">> \o x
ScriptDoc(x) == <<"a", " ", "=", " ">> \o x
Docs(xs) ==
  {ValueDoc(x) : x \in xs} \cup {ReturnDoc(x) : x \in xs} \cup {ScriptDoc(x) : x \in xs}

\* Inputs given in every specification, so that each operation has something
\* to work on: tables to project, a return statement, a script.
CommonInputs ==
  { <<"{", "1", ",", " ", "2", "}">>, <<"{", "[", "2", "]", " ", "=", " ", "1", ",", " ", "3", "}">>, <<"r", "e", "t", "u", "r", "n", " ", "{", "1", "}">>, <<"a", " ", "=", " ", "1", ";", " ", "b", " ", "=", " ", "{", "2", "}">>, <<"n", "i", "l">>, <<>> }

\* Tables nested in each other.  A table holds the next one as a positional
\* value, inside a bracketed key, as the value of a name, or as the value of
\* a key that is a long string.
WrapPositional(x) == <<"{">> \o x \o <<"}">>
WrapKey(x) == <<"{", "[">> \o x \o <<"]", "=", "1", "}">>
WrapNamed(x) == <<"{", "a", "=">> \o x \o <<"}">>
WrapLongKey(x) == <<"{", "[", "[", "=", "[", "k", "]", "=", "]", " ", "]", "=">> \o x \o <<"}">>
Wraps(xs) ==
  {WrapPositional(x) : x \in xs} \cup {WrapKey(x) : x \in xs}
    \cup {WrapNamed(x) : x \in xs} \cup {WrapLongKey(x) : x \in xs}

MaxNest == 3

\* A budget no input of the model exhausts.
DepthUnlimited == MaxNest + MaxBudget

RECURSIVE Nested(_)
Nested(n) ==
  IF n = 0 THEN {<<"1">>, <<"{", "}">>} ELSE Nested(n - 1) \cup Wraps(Nested(n - 1))

\* The same texts with the last byte missing.
Truncated(xs) == {SubSeq(x, 1, Len(x) - 1) : x \in xs}

\* The deepest texts are given as bare values; the shallower ones also as
\* return statements and scripts, and with the last byte missing.
DepthInputs ==
  Nested(MaxNest) \cup Docs(Nested(MaxNest - 1)) \cup Truncated(Nested(MaxNest - 1))

\* The number of table openers that are open at once in a text without braces
\* inside strings.
BraceNesting(s) ==
  LET open(k) == Cardinality({j \in 1..k : s[j] = "{"})
                   - Cardinality({j \in 1..k : s[j] = "}"})
  IN Max({open(k) : k \in 0..Len(s)})

\* The state after construction: an input and a budget, nothing parsed yet.
Start(inputs, budgets) ==
  /\ input \in inputs \cup CommonInputs
  /\ max_depth \in budgets
  /\ pc = "ready"
  /\ format = "none"
  /\ result = NoResult
  /\ outcome = NoOutcome

InitDepth == Start(DepthInputs, Budgets)
SpecDepth == InitDepth /\ [][Next]_vars

\* What the entry point the state names returns for a text and a budget.
Parse(f, s, d) ==
  IF f = "Value" THEN lua_value(s, d)
  ELSE IF f = "Return" THEN return_statement(s, d)
  ELSE script(s, d)

TooDeep == <<"too deeply nested">>

\* ---------------------------------------------------------------------
\* The depth budget (C1, C4)
\* ---------------------------------------------------------------------

\* How deep the tables of what an entry point returned are nested.
Nesting(f, val) ==
  IF f = "Script" THEN Max({0} \cup {Depth(val[k][2]) : k \in 1..Len(val)})
  ELSE Depth(val)

\* C1: if the tables of the input are nested more than max_depth levels deep,
\* the entry point fails and the error it returns is the depth error ('too
\* deeply nested').  The nesting of an input is that of the value it denotes,
\* read with a budget that is never exhausted.
C1_DeeperThanBudgetIsDepthError ==
  pc = "parsed" =>
    LET full == Parse(format, input, DepthUnlimited)
    IN (full.ok /\ Nesting(format, full.val) > max_depth) =>
         (~result.ok /\ TooDeep \in result.expected)

\* C4: an input whose tables are nested at most max_depth levels deep, tables
\* inside bracketed keys counted alike, is read exactly as with a budget that
\* is never exhausted; and an input that opens at most max_depth tables at
\* once never gets the depth error.
C4_WithinBudgetNeverDepthError ==
  pc = "parsed" =>
    LET full == Parse(format, input, DepthUnlimited)
    IN /\ (full.ok /\ Nesting(format, full.val) <= max_depth) => result = full
       /\ BraceNesting(input) <= max_depth => TooDeep \notin result.expected

\* C4 happens: a table nested in a bracketed key, three levels deep, read
\* with a budget of exactly three.
C4_Witness ==
  /\ pc = "parsed"
  /\ format = "Value"
  /\ input = WrapPositional(WrapKey(WrapNamed(<<"1">>)))
  /\ max_depth = 3
  /\ result.ok
  /\ Depth(result.val) = 3

\* ---------------------------------------------------------------------
\* Constructs outside the data grammar (C2)
\* ---------------------------------------------------------------------

\* Expressions of Lua that are not data: arithmetic, bitwise and comparison
\* operators, calls, variable references, parenthesized expressions, logical
\* operators, concatenation, the length operator, function values.
UnsupportedExpressions ==
  { <<"3", " ", "+", " ", "2">>, <<"3", "+", "2">>, <<"3", " ", "-", " ", "2">>, <<"3", "-", "2">>, <<"3", " ", "*", " ", "2">>, <<"3", "*", "2">>, <<"3", " ", "/", " ", "2">>, <<"3", "/", "2">>,
    <<"3", " ", "/", "/", " ", "2">>, <<"3", "/", "/", "2">>, <<"3", " ", "%", " ", "2">>, <<"3", "%", "2">>, <<"3", " ", "^", " ", "2">>, <<"3", "^", "2">>,
    <<"3", " ", "&", " ", "2">>, <<"3", "&", "2">>, <<"3", " ", "|", " ", "4">>, <<"3", "|", "4">>, <<"3", " ", "~", " ", "2">>, <<"3", "~", "2">>,
    <<"3", " ", "<", "<", " ", "2">>, <<"3", "<", "<", "2">>, <<"3", " ", ">", ">", " ", "2">>, <<"3", ">", ">", "2">>, <<"~", "3">>, <<"-", " ", "3">>, <<"-", "{", "}">>, <<"-", "n", "i", "l">>,
    <<"b">>, <<"b", ".", "c">>, <<"b", "[", "1", "]">>, <<"_", "G">>, <<"n", "i", "l", "b">>, <<"b", " ", "=", "=", " ", "3">>, <<"3", " ", "~", "=", " ", "1">>, <<"3", " ", "<", " ", "1">>, <<"3", "<", "=", "1">>,
    <<"3", " ", ">", " ", "1">>, <<"3", ">", "=", "1">>,
    <<"f", "(", ")">>, <<"f", "(", "1", ")">>, <<"f", "{", "}">>, <<"f", "\"", "x", "\"">>, <<"b", ":", "f", "(", ")">>, <<"p", "r", "i", "n", "t", "(", "\"", "x", "\"", ")">>,
    <<"f", "u", "n", "c", "t", "i", "o", "n", "(", ")", " ", "e", "n", "d">>, <<"f", "u", "n", "c", "t", "i", "o", "n", "(", ")", " ", "r", "e", "t", "u", "r", "n", " ", "3", " ", "e", "n", "d">>,
    <<"(", "3", ")">>, <<"(", "t", "r", "u", "e", ")">>, <<"(", " ", "0", "/", "0", " ", ")">>, <<"(", "(", "0", "/", "0", ")", ")">>, <<"(", "0", "/", "1", ")">>, <<"(", "{", "}", ")">>, <<"(", "\"", "x", "\"", ")">>,
    <<"t", "r", "u", "e", " ", "a", "n", "d", " ", "t", "r", "u", "e">>, <<"t", "r", "u", "e", " ", "o", "r", " ", "f", "a", "l", "s", "e">>, <<"n", "o", "t", " ", "f", "a", "l", "s", "e">>, <<"n", "i", "l", " ", "a", "n", "d", " ", "1">>,
    <<"'", "x", "'", " ", ".", ".", " ", "'", "y", "'">>, <<"'", "x", "'", ".", ".", "'", "y", "'">>, <<"\"", "x", "\"", ".", ".", "\"", "y", "\"">>, <<"1", " ", ".", ".", " ", "2">>,
    <<"#", "b">>, <<"#", "{", "}">>, <<"#", "\"", "x", "\"">>,
    <<"1", " ", "-", "-", " ", "c">>, <<"-", "-", "[", "[", " ", "c", " ", "]", "]", " ", "1">>, <<"-", "-", " ", "c", "\n", "1">>, <<"-", "-", "[", "=", "=", "[", "\n", "c", "\n", "]", "=", "=", "]", "\n", "1">> }

\* Statements of Lua that are not assignments of data to a name.
UnsupportedStatements ==
  { <<"l", "o", "c", "a", "l", " ", "a", " ", "=", " ", "3">>, <<"l", "o", "c", "a", "l", " ", "a">>, <<"d", "o", "\n", " ", " ", "a", " ", "=", " ", "4", "\n", "e", "n", "d">>, <<"a", " ", "=", " ", "3", "\n", "d", "o", "\n", " ", " ", "a", " ", "=", " ", "4", "\n", "e", "n", "d", "\n">>,
    <<"-", "-", " ", "l", "i", "n", "e", " ", "c", "o", "m", "m", "e", "n", "t", "\n", "a", " ", "=", " ", "3", "\n">>, <<"-", "-", "[", "[", " ", "l", "o", "n", "g", " ", "c", "o", "m", "m", "e", "n", "t", " ", "]", "]", "a", " ", "=", " ", "3", "\n">>,
    <<"a", " ", "=", " ", "3", " ", "-", "-", " ", "c">>, <<"a", " ", "=", " ", "3", "\n", "-", "-", "[", "[", "\n", "c", "\n", "]", "]">>,
    <<"f", "u", "n", "c", "t", "i", "o", "n", " ", "a", "(", ")", "\n", " ", " ", "r", "e", "t", "u", "r", "n", " ", "3", "\n", "e", "n", "d", "\n", "b", " ", "=", " ", "a", "(", ")", "\n">>, <<"f", "u", "n", "c", "t", "i", "o", "n", " ", "a", "(", ")", " ", "e", "n", "d">>,
    <<"a", " ", "=", " ", "3", "\n", "b", " ", "=", " ", "a", "\n">>, <<"a", " ", "=", " ", "{", "}", "\n", "a", ".", "b", " ", "=", " ", "3", "\n">>, <<"a", " ", "=", " ", "{", "}", "\n", "b", " ", "=", " ", "#", "a", "\n">>,
    <<"a", ",", " ", "b", " ", "=", " ", "'", "x", "'", ",", " ", "'", "y", "'">>, <<"a", ",", "b", "=", "1", ",", "2">>, <<"f", "(", ")">>, <<"a", " ", "=", " ", "3", "\n", "f", "(", "a", ")">>,
    <<"r", "e", "t", "u", "r", "n", " ", "f", "(", ")">>, <<"r", "e", "t", "u", "r", "n", " ", "a">>, <<"r", "e", "t", "u", "r", "n", " ", "3", " ", "+", " ", "2">>, <<"r", "e", "t", "u", "r", "n", " ", "(", "3", ")">>, <<"r", "e", "t", "u", "r", "n", " ", "n", "o", "t", " ", "n", "i", "l">>,
    <<"r", "e", "t", "u", "r", "n", " ", "#", "a">>, <<"r", "e", "t", "u", "r", "n", " ", "-", "-", " ", "c", "\n", "3">>, <<"r", "e", "t", "u", "r", "n", " ", "1", " ", ".", ".", " ", "2">> }

WithNewline(xs) == xs \cup {x \o <<"\n">> : x \in xs}

\* Each expression as the whole input, as the returned value, as the value
\* assigned in a script and as an entry of a table; each statement as the
\* whole input.
UnsupportedInputs ==
  WithNewline(Docs(UnsupportedExpressions)
                \cup {WrapPositional(x) : x \in UnsupportedExpressions}
                \cup {WrapNamed(x) : x \in UnsupportedExpressions}
                \cup {WrapKey(x) : x \in UnsupportedExpressions}
                \cup UnsupportedStatements)

InitUnsupported == Start(UnsupportedInputs, {1, MaxBudget})
SpecUnsupported == InitUnsupported /\ [][Next]_vars

\* C2: an input that denotes a function call, an arithmetic operation, a
\* variable reference, a parenthesized expression, a logical operator, a
\* concatenation, the length operator, a local declaration, a do/end block or
\* a comment is rejected by each of the three entry points.
C2_UnsupportedConstructsRejected ==
  (pc = "parsed" /\ input \in UnsupportedInputs) => ~result.ok

\* C2 happens: the script entry point has refused an assignment whose value
\* is a variable reference.
C2_Witness ==
  /\ pc = "parsed"
  /\ format = "Script"
  /\ input = <<"a", " ", "=", " ", "3", "\n", "b", " ", "=", " ", "a", "\n">>
  /\ ~result.ok
  /\ result.location = 10

\* ---------------------------------------------------------------------
\* The whole input is consumed (C5)
\* ---------------------------------------------------------------------

\* Values every entry point reads when they are the whole value text.
ValidValues ==
  { <<"1">>, <<"n", "i", "l">>, <<"\"", "x", "\"">>, <<"{", "1", ",", " ", "2", "}">>, <<"{", "a", " ", "=", " ", "1", "}">>, <<"0", "x", "1", "0">>, <<"[", "[", "x", "]", "]">>, <<"1", ".", "5">>, <<"{", "}">> }

\* Whitespace, and bytes that continue none of the constructs above (a
\* radix point would continue a numeral).
Paddings == { <<>>, <<" ">>, <<"\n">>, <<"\t", " ", "\r", "\n">> }
Garbage == { <<"}">>, <<")">>, <<"@">>, <<",">>, <<" ", "x">>, <<" ", "1">>, <<"]">>, <<"=">>, <<"\"">> }

Padded(xs) == {x \o w : x \in xs, w \in Paddings}
WithGarbage(xs) == {x \o g : x \in Padded(xs), g \in Garbage}

ValueDocs == {ValueDoc(x) : x \in ValidValues}
ReturnDocs == {ReturnDoc(x) : x \in ValidValues}
ScriptDocs == {ScriptDoc(x) : x \in ValidValues}

GarbageInputs == WithGarbage(ValueDocs \cup ReturnDocs \cup ScriptDocs)
PaddedInputs == Padded(ValueDocs \cup ReturnDocs \cup ScriptDocs)

InitGarbage == Start(GarbageInputs \cup PaddedInputs, {1, MaxBudget})
SpecGarbage == InitGarbage /\ [][Next]_vars

\* What the rule behind an entry point matched, before the entry point looks
\* at where the match ended.
Raw(f, s, d) ==
  IF f = "Value" THEN Rule("lua_value_rule", s, 0, d)
  ELSE IF f = "Return" THEN Rule("return_statement_rule", s, 0, d)
  ELSE Rule("script_rule", s, 0, d)

\* C5: an entry point succeeds only if its rule matched the input up to its
\* end; a document followed by bytes that are not whitespace is rejected by
\* each entry point, and a document followed by whitespace only is accepted
\* by its own.
C5_WholeInputConsumed ==
  pc = "parsed" =>
    /\ result.ok => Raw(format, input, max_depth).pos = Len(input)
    /\ input \in GarbageInputs => ~result.ok
    /\ (format = "Value" /\ input \in Padded(ValueDocs)) => result.ok
    /\ (format = "Return" /\ input \in Padded(ReturnDocs)) => result.ok
    /\ (format = "Script" /\ input \in Padded(ScriptDocs)) => result.ok

\* C5 happens: a return statement followed by a closing brace is refused at
\* the brace, where the end of the input was expected.
C5_Witness ==
  /\ pc = "parsed"
  /\ format = "Return"
  /\ input = <<"r", "e", "t", "u", "r", "n", " ", "{", "1", ",", " ", "2", "}", " ", "}">>
  /\ ~result.ok
  /\ result.location = 14
  /\ <<"EOF">> \in result.expected

\* ---------------------------------------------------------------------
\* Tables projected to a sequence (C3)
\* ---------------------------------------------------------------------

\* Entries of each kind: positional, keyed by an integer (small, negative,
\* the largest i64, a large one), named, keyed by a string.
EntryTexts ==
  { <<"1">>, <<"[", "1", "]", "=", "7">>, <<"[", "3", "]", "=", "8">>, <<"[", "-", "1", "]", "=", "2">>, <<"a", "=", "1">>, <<"[", "\"", "k", "\"", "]", "=", "1">>,
    <<"[", "9", "2", "2", "3", "3", "7", "2", "0", "3", "6", "8", "5", "4", "7", "7", "5", "8", "0", "7", "]", "=", "1">>, <<"[", "4", "6", "1", "1", "6", "8", "6", "0", "1", "8", "4", "2", "7", "3", "8", "7", "9", "0", "4", "]", "=", "1">> }

MaxEntries == 3

\* The lists of at most n entries, in every order, separated by commas.
RECURSIVE EntryLists(_)
EntryLists(n) ==
  IF n = 0 THEN {<<>>}
  ELSE EntryLists(n - 1)
         \cup {IF l = <<>> THEN e ELSE l \o <<",", " ">> \o e :
                 l \in EntryLists(n - 1), e \in EntryTexts}

TableInputs ==
  {WrapPositional(l) : l \in EntryLists(MaxEntries)}
    \cup {ReturnDoc(WrapPositional(l)) : l \in EntryLists(1)}

InitTables == Start(TableInputs, {1})
SpecTables == InitTables /\ [][Next]_vars

\* C3: whatever mixture of entries a parsed table holds, projecting it to a
\* sequence ends with a value or an error value, never with a panic or an
\* abort of the process.
C3_ProjectionNeverPanics ==
  outcome.kind \notin {"panic", "abort"}

\* ---------------------------------------------------------------------
\* Hexadecimal integers (C6)
\* ---------------------------------------------------------------------

Signs == { <<>>, <<"-">>, <<"+">> }
HexPrefixes == { <<"0", "x">>, <<"0", "X">> }

MaxHexDigits == 17

\* Digit strings: a leading digit or none, then one digit repeated; from one
\* digit to more than an i64 holds.
Repeat(c, n) == [k \in 1..n |-> c]
HexDigitStrings ==
  {h \o Repeat(c, n) :
     h \in {<<>>, <<"1">>, <<"7">>, <<"8">>, <<"F">>, <<"a">>}, c \in {"0", "f", "5"},
     n \in 0..MaxHexDigits} \ {<<>>}

HexLiterals == {sg \o x \o ds : sg \in Signs, x \in HexPrefixes, ds \in HexDigitStrings}

HexValueDocs == {ValueDoc(x) : x \in HexLiterals}
HexReturnDocs == {ReturnDoc(x) : x \in HexLiterals}
HexScriptDocs == {ScriptDoc(x) : x \in HexLiterals}

InitHex == Start(HexValueDocs \cup HexReturnDocs \cup HexScriptDocs, {1})
SpecHex == InitHex /\ [][Next]_vars

\* The text of the value in a document of the entry point the state names.
ValueText ==
  IF format = "Return" THEN SubSeq(input, Len(ReturnDoc(<<>>)) + 1, Len(input))
  ELSE IF format = "Script" THEN SubSeq(input, Len(ScriptDoc(<<>>)) + 1, Len(input))
  ELSE input

\* The value an entry point returned for a document with one value.
TheValue == IF format = "Script" THEN result.val[1][2] ELSE result.val

\* The state holds what an entry point returned for one of its own documents.
OwnDoc(values, returns, scripts) ==
  /\ pc = "parsed"
  /\ \/ format = "Value" /\ input \in values
     \/ format = "Return" /\ input \in returns
     \/ format = "Script" /\ input \in scripts

HasSign(l) == l # <<>> /\ l[1] \in {"+", "-"}
IsMinus(l) == l # <<>> /\ l[1] = "-"

\* The magnitude of a hexadecimal literal modulo 2^64: its last sixteen
\* digits.
HexMagnitude(l) ==
  LET ds == SubSeq(l, (IF HasSign(l) THEN 4 ELSE 3), Len(l))
  IN [k \in 1..I64Limbs |->
        LET j == Len(ds) - I64Limbs + k IN IF j >= 1 THEN HexVal(ds[j]) ELSE 0]

\* -m modulo 2^64: zero for zero; otherwise the limbs before the last limb
\* of m that is not zero are complemented, that limb is subtracted from 16,
\* and the limbs after it stay zero.
Opposite(m) ==
  IF \A k \in 1..Len(m) : m[k] = 0 THEN m
  ELSE LET j == Max({k \in 1..Len(m) : m[k] # 0})
       IN [k \in 1..Len(m) |->
             IF k < j THEN 15 - m[k] ELSE IF k = j THEN 16 - m[k] ELSE 0]

\* The value of a short digit string, as a number.
RECURSIVE HexNumber(_)
HexNumber(ds) ==
  IF ds = <<>> THEN 0
  ELSE 16 * HexNumber(SubSeq(ds, 1, Len(ds) - 1)) + HexVal(ds[Len(ds)])

\* C6: a hexadecimal integer literal of any length is read as an Integer:
\* its magnitude modulo 2^64, negated modulo 2^64 under a minus sign, in
\* two-complement form; for a literal of at most six digits that is the
\* signed value itself.
C6_HexIntegersWrap ==
  OwnDoc(HexValueDocs, HexReturnDocs, HexScriptDocs) =>
    LET l == ValueText
        m == HexMagnitude(l)
        ds == SubSeq(l, (IF HasSign(l) THEN 4 ELSE 3), Len(l))
    IN /\ result.ok
       /\ TheValue.t = "int"
       /\ TheValue.v = IF IsMinus(l) THEN Opposite(m) ELSE m
       /\ Len(ds) <= 6 =>
            ToInt(TheValue.v) = IF IsMinus(l) THEN 0 - HexNumber(ds) ELSE HexNumber(ds)

\* C6 happens: -0xffffffffffffffff has been read as 1, and 0xffffffffffffffff
\* as -1.
C6_Witness ==
  /\ pc = "parsed"
  /\ \/ /\ format = "Value"
        /\ input = <<"-", "0", "x", "f", "f", "f", "f", "f", "f", "f", "f", "f", "f", "f", "f", "f", "f", "f", "f">>
        /\ result.ok
        /\ result.val = Integer(Small(1, I64Limbs))
     \/ /\ format = "Return"
        /\ input = <<"r", "e", "t", "u", "r", "n", " ", "0", "x", "f", "f", "f", "f", "f", "f", "f", "f", "f", "f", "f", "f", "f", "f", "f", "f">>
        /\ result.ok
        /\ ToInt(result.val.v) = -1

\* ---------------------------------------------------------------------
\* Decimal integers (C7)
\* ---------------------------------------------------------------------

\* All but the last digit of decimal numerals: small ones, and ones next to
\* 2^63, to 2^63 + 1024 and 2^63 + 3072 (half way between two floats), to
\* 2^64 and to powers of ten.
DecStems ==
  { <<>>, <<"4">>, <<"9", "2", "2", "3", "3", "7", "2", "0", "3", "6", "8", "5", "4", "7", "7", "5", "8", "0">>, <<"9", "2", "2", "3", "3", "7", "2", "0", "3", "6", "8", "5", "4", "7", "7", "5", "7", "9">>,
    <<"9", "2", "2", "3", "3", "7", "2", "0", "3", "6", "8", "5", "4", "7", "7", "6", "8", "3">>, <<"9", "2", "2", "3", "3", "7", "2", "0", "3", "6", "8", "5", "4", "7", "7", "8", "8", "8">>, <<"9", "2", "2", "3", "3", "7", "2", "0", "3", "6", "8", "5", "4", "7", "7", "7", "8", "5">>,
    <<"1", "8", "4", "4", "6", "7", "4", "4", "0", "7", "3", "7", "0", "9", "5", "5", "1", "6", "1">>, <<"9", "9", "9", "9", "9", "9", "9", "9", "9", "9", "9", "9", "9", "9", "9", "9", "9", "9">>, <<"1", "0", "0", "0", "0", "0", "0", "0", "0", "0", "0", "0", "0", "0", "0", "0", "0", "0", "0">>,
    <<"9", "9", "9", "9", "9", "9", "9", "9", "9", "9", "9", "9", "9", "9", "9", "9", "9", "9", "9", "9">>, <<"1", "2", "3", "4", "5", "6", "7", "8", "9", "0", "1", "2", "3", "4", "5", "6", "7", "8", "9", "0">> }

MaxLeadingZeros == 1

DecDigitStrings(zeros) ==
  {Repeat("0", z) \o stem \o <<d>> : z \in zeros, stem \in DecStems, d \in Digits}

DecLiterals(zeros) == {sg \o ds : sg \in Signs, ds \in DecDigitStrings(zeros)}

\* Every literal as a bare value; those without leading zeros also as a
\* returned value and in a script.
DecValueDocs == {ValueDoc(x) : x \in DecLiterals(0..MaxLeadingZeros)}
DecReturnDocs == {ReturnDoc(x) : x \in DecLiterals({0})}
DecScriptDocs == {ScriptDoc(x) : x \in DecLiterals({0})}

InitDec == Start(DecValueDocs \cup DecReturnDocs \cup DecScriptDocs, {1})
SpecDec == InitDec /\ [][Next]_vars

\* The decimal digits of a literal without sign and leading zeros (none for
\* zero).
DecDigitsOf(l) ==
  LET ds == IF HasSign(l) THEN Tail(l) ELSE l
      nz == {k \in 1..Len(ds) : ds[k] # "0"}
  IN IF nz = {} THEN <<>> ELSE SubSeq(ds, Min(nz), Len(ds))

\* a <= b for decimal digit strings without leading zeros.
DecLessEq(a, b) ==
  \/ Len(a) < Len(b)
  \/ /\ Len(a) = Len(b)
     /\ \/ a = b
        \/ \E k \in 1..Len(a) :
             /\ DecVal(a[k]) < DecVal(b[k])
             /\ \A i \in 1..(k - 1) : a[i] = b[i]

I64MaxDecimal == <<"9", "2", "2", "3", "3", "7", "2", "0", "3", "6", "8", "5", "4", "7", "7", "5", "8", "0", "7">>
I64MinDecimal == <<"9", "2", "2", "3", "3", "7", "2", "0", "3", "6", "8", "5", "4", "7", "7", "5", "8", "0", "8">>

InI64Range(l) ==
  DecLessEq(DecDigitsOf(l), IF IsMinus(l) THEN I64MinDecimal ELSE I64MaxDecimal)

\* The decimal digits of a number given as limbs: the limbs are taken in one
\* by one, each step multiplying the decimal digits by 16 and adding the limb.
RECURSIVE DecimalLoop(_, _, _)
DecimalLoop(a, k, acc) ==
  IF k > Len(a) THEN acc
  ELSE LET W == Len(acc)
           c[j \in 0..W] == IF j = W THEN a[k] ELSE (acc[j + 1] * 16 + c[j + 1]) \div 10
           n == [j \in 1..W |-> (acc[j] * 16 + c[j]) % 10]
       IN DecimalLoop(a, k + 1, n)

DecimalOf(a) ==
  LET ds == DecimalLoop(a, 1, Zeros(2 * Len(a)))
      nz == {k \in 1..Len(ds) : ds[k] # 0}
  IN IF nz = {} THEN <<>>
     ELSE [k \in 1..(Len(ds) - Min(nz) + 1) |-> Chr[48 + ds[Min(nz) + k - 1]]]

\* The limbs of a number given as bits (a multiple of four of them).
BitsToLimbs(bits) ==
  [k \in 1..(Len(bits) \div 4) |->
     8 * bits[4 * k - 3] + 4 * bits[4 * k - 2] + 2 * bits[4 * k - 1] + bits[4 * k]]

\* A short sequence of bits as a number.
RECURSIVE BitsNumber(_)
BitsNumber(bits) ==
  IF bits = <<>> THEN 0
  ELSE 2 * BitsNumber(SubSeq(bits, 1, Len(bits) - 1)) + bits[Len(bits)]

RECURSIVE Pow2(_)
Pow2(n) == IF n = 0 THEN 1 ELSE 2 * Pow2(n - 1)

\* b = a + 1 for bit sequences, b as long as a or one bit longer.
IsSuccessor(a, b) ==
  \/ /\ Len(b) = Len(a)
     /\ \E j \in 1..Len(a) :
          /\ a[j] = 0 /\ b[j] = 1
          /\ \A i \in 1..(j - 1) : a[i] = b[i]
          /\ \A i \in (j + 1)..Len(a) : a[i] = 1 /\ b[i] = 0
  \/ /\ Len(b) = Len(a) + 1
     /\ \A i \in 1..Len(a) : a[i] = 1
     /\ b = <<1>> \o Zeros(Len(a))

\* f, the exact value of a float as bits, is the f64 nearest to the number
\* with the bits n (first bit set): n itself if 53 bits hold it; otherwise
\* one of the two floats around n, the nearer one, and of two equally near
\* the one whose last mantissa bit is zero.
IsNearestF64(n, f) ==
  IF Len(n) <= F64Mantissa THEN f = n
  ELSE LET k == Len(n) - F64Mantissa
           top == SubSeq(n, 1, F64Mantissa)
           ftop == SubSeq(f, 1, Len(f) - k)
           rest == BitsNumber(SubSeq(n, F64Mantissa + 1, Len(n)))
           below == rest
           above == Pow2(k) - rest
       IN /\ Len(f) >= Len(n)
          /\ SubSeq(f, Len(f) - k + 1, Len(f)) = Zeros(k)
          /\ \/ ftop = top /\ below < above
             \/ IsSuccessor(top, ftop) /\ above < below
             \/ ftop = top /\ below = above /\ top[F64Mantissa] = 0
             \/ IsSuccessor(top, ftop) /\ below = above /\ top[F64Mantissa] = 1

\* C7: a decimal integer literal whose value lies in the i64 range is read
\* as the Integer with exactly that value (its decimal digits are those of
\* the literal, its sign the literal's); any other is read as the Float of
\* the same sign that is nearest to the value.
C7_DecimalIntegerOrNearestFloat ==
  OwnDoc(DecValueDocs, DecReturnDocs, DecScriptDocs) =>
    LET l == ValueText
        ds == DecDigitsOf(l)
        v == TheValue
        exact == StripZeros(LimbsToBits(DecToLimbs(ds, Len(ds)).d))
    IN /\ result.ok
       /\ IF InI64Range(l)
          THEN /\ v.t = "int"
               /\ (IsMinus(l) /\ ds # <<>>) <=> (v.v[1] >= 8)
               /\ DecimalOf(IF IsMinus(l) THEN Opposite(v.v) ELSE v.v) = ds
          ELSE /\ v.t = "float"
               /\ v.neg = IsMinus(l)
               /\ v.cls = "fin"
               /\ DecimalOf(BitsToLimbs(Zeros((4 - (Len(exact) % 4)) % 4) \o exact)) = ds
               /\ IsNearestF64(exact, v.mag)

\* C7 happens: the smallest i64 has been read as an Integer, 2^63 as a
\* Float, and a value half way between two floats as the even one of them.
C7_Witness ==
  /\ pc = "parsed"
  /\ format = "Value"
  /\ result.ok
  /\ \/ /\ input = <<"-", "9", "2", "2", "3", "3", "7", "2", "0", "3", "6", "8", "5", "4", "7", "7", "5", "8", "0", "8">>
        /\ result.val = Integer(<<8>> \o Zeros(I64Limbs - 1))
     \/ /\ input = <<"9", "2", "2", "3", "3", "7", "2", "0", "3", "6", "8", "5", "4", "7", "7", "5", "8", "0", "8">>
        /\ result.val.t = "float"
        /\ result.val.mag = <<1>> \o Zeros(63)
     \/ /\ input = <<"9", "2", "2", "3", "3", "7", "2", "0", "3", "6", "8", "5", "4", "7", "7", "8", "8", "8", "0">>
        /\ result.val.t = "float"
        /\ result.val.mag = <<1>> \o Zeros(50) \o <<1, 0>> \o Zeros(11)

\* ---------------------------------------------------------------------
\* Hexadecimal digits followed by a radix point, an exponent marker or a
\* sign (C8)
\* ---------------------------------------------------------------------

HexHeads == { <<"0", "x", "1">>, <<"0", "x", "E">>, <<"0", "X", "e">>, <<"-", "0", "x", "f">>, <<"0", "x", "1", "F">> }
HexFollowers == { <<".">>, <<"p">>, <<"P">>, <<"+">>, <<"-">> }
HexContinuations ==
  { <<>>, <<"1">>, <<"p">>, <<"-", "p">>, <<"=", "3">>, <<" ", "=", " ", "3">>, <<"=", "n", "i", "l">>, <<" ", "1">>, <<";">>, <<"+">> }

HexFollowed ==
  {h \o f \o c : h \in HexHeads, f \in HexFollowers, c \in HexContinuations}

HexFollowedInputs == Docs(HexFollowed)

InitHexFollowed == Start(HexFollowedInputs, {1})
SpecHexFollowed == InitHexFollowed /\ [][Next]_vars

\* What an entry point returned holds a value first, and it is an Integer.
FirstValueIsInteger ==
  /\ result.ok
  /\ IF format = "Script" THEN result.val # <<>> /\ result.val[1][2].t = "int"
     ELSE result.val.t = "int"

\* C8: when the hex digits after 0x or 0X are followed at once by a radix
\* point, by p or P, or by a sign, no entry point accepts the input with the
\* leading digits read as a hexadecimal integer and the rest as further
\* input.
C8_HexDigitsNeverSplit ==
  (pc = "parsed" /\ input \in HexFollowedInputs) => ~FirstValueIsInteger

\* ---------------------------------------------------------------------
\* Names as table keys and in assignments (C9, C10)
\* ---------------------------------------------------------------------

\* Identifiers that are not reserved words; some contain a reserved word or
\* begin with the text of a literal.
Names ==
  { <<"a">>, <<"x", "1">>, <<"_">>, <<"_", "G">>, <<"a", "n", "d", "1">>, <<"n", "i", "l", "1">>, <<"t", "r", "u", "e", "1">>, <<"f", "a", "l", "s", "e", "y">>, <<"n", "i", "l", "x">>,
    <<"t", "r", "u", "e", "n", "e", "s", "s">>, <<"f", "a", "l", "s", "e", "_">>, <<"a", "n", "d", "r", "o", "i", "d">>, <<"n", "o", "t", "n", "i", "l">>, <<"x", "_", "n", "i", "l">>, <<"d", "o", "_">>, <<"n">>,
    <<"f", "a", "l", "s">>, <<"n", "o", "t", "h", "i", "n", "g">>, <<"E", "n", "d">>, <<"N", "I", "L">>, <<"r", "e", "t", "u", "r", "n", "e", "d">> }

\* Values without strings (a string value records where in the input it was).
NamedValues == { <<"1">>, <<"n", "i", "l">>, <<"t", "r", "u", "e">>, <<"{", "}">>, <<"{", "1", "}">>, <<"-", "0", "x", "1", "0">>, <<"1", ".", "5">> }

NamedTable(n, v) == <<"{">> \o n \o <<" ", "=", " ">> \o v \o <<"}">>
NamedTableTight(n, v) == <<"{">> \o n \o <<"=">> \o v \o <<"}">>
NamedScript(n, v) == n \o <<" ", "=", " ">> \o v
NamedScriptTight(n, v) == n \o <<"=">> \o v

NamedTableInputs ==
  {NamedTable(n, v) : n \in Names, v \in NamedValues}
    \cup {NamedTableTight(n, v) : n \in Names, v \in NamedValues}
NamedScriptInputs ==
  {NamedScript(n, v) : n \in Names, v \in NamedValues}
    \cup {NamedScriptTight(n, v) : n \in Names, v \in NamedValues}

InitNamed == Start(NamedTableInputs \cup NamedScriptInputs, {MaxBudget})
SpecNamed == InitNamed /\ [][Next]_vars

\* What the bare value v is read as.
ValueOf(v) == lua_value(v, MaxBudget).val

\* C9: for an identifier n that is not a reserved word and a value v, the
\* table {n = v} is read as a table with the single entry Named(n, v), and
\* the script n = v as the single pair (n, v).
C9_NamedEntryAndAssignment ==
  pc = "parsed" =>
    \A n \in Names, v \in NamedValues :
      /\ (format = "Value" /\ input \in {NamedTable(n, v), NamedTableTight(n, v)}) =>
           (result.ok /\ result.val = Table(<<EntryNameValue(n, ValueOf(v))>>))
      /\ (format = "Script" /\ input \in {NamedScript(n, v), NamedScriptTight(n, v)}) =>
           (result.ok /\ result.val = << <<n, ValueOf(v)>> >>)

\* Each reserved word as a bare table key, as the name assigned in a script
\* and as a string key.
\* The reserved words are those of the Lua 5.4 manual, section 3.1.
Keywords ==
  { <<"a", "n", "d">>, <<"b", "r", "e", "a", "k">>, <<"d", "o">>, <<"e", "l", "s", "e">>, <<"e", "l", "s", "e", "i", "f">>, <<"e", "n", "d">>, <<"f", "a", "l", "s", "e">>, <<"f", "o", "r">>,
    <<"f", "u", "n", "c", "t", "i", "o", "n">>, <<"g", "o", "t", "o">>, <<"i", "f">>, <<"i", "n">>, <<"l", "o", "c", "a", "l">>, <<"n", "i", "l">>, <<"n", "o", "t">>, <<"o", "r">>,
    <<"r", "e", "p", "e", "a", "t">>, <<"r", "e", "t", "u", "r", "n">>, <<"t", "h", "e", "n">>, <<"t", "r", "u", "e">>, <<"u", "n", "t", "i", "l">>, <<"w", "h", "i", "l", "e">> }
KeywordValues == { <<"1">>, <<"n", "i", "l">>, <<"{", "}">>, <<"t", "r", "u", "e">> }

StringKeyTable(w, v) == <<"{", "[", "'">> \o w \o <<"'", "]", " ", "=", " ">> \o v \o <<"}">>

KeywordNamedInputs ==
  {NamedTable(w, v) : w \in Keywords, v \in KeywordValues}
    \cup {NamedTableTight(w, v) : w \in Keywords, v \in KeywordValues}
    \cup {NamedScript(w, v) : w \in Keywords, v \in KeywordValues}
    \cup {NamedScriptTight(w, v) : w \in Keywords, v \in KeywordValues}
    \cup {ReturnDoc(NamedTable(w, v)) : w \in Keywords, v \in KeywordValues}
    \cup {ScriptDoc(NamedTable(w, v)) : w \in Keywords, v \in KeywordValues}

KeywordStringKeyTables == {StringKeyTable(w, v) : w \in Keywords, v \in KeywordValues}
KeywordValueDocs == {ValueDoc(x) : x \in KeywordStringKeyTables}
KeywordReturnDocs == {ReturnDoc(x) : x \in KeywordStringKeyTables}
KeywordScriptDocs == {ScriptDoc(x) : x \in KeywordStringKeyTables}

InitKeywords ==
  Start(KeywordNamedInputs \cup KeywordValueDocs \cup KeywordReturnDocs
          \cup KeywordScriptDocs, {MaxBudget})
SpecKeywords == InitKeywords /\ [][Next]_vars

\* C10: a reserved word as a bare table key or as the name assigned in a
\* script is rejected by every entry point; the same word written as a string
\* key is accepted, and the key of the entry is the string with the bytes of
\* the word.
C10_ReservedWordsRejectedAsNames ==
  pc = "parsed" =>
    /\ input \in KeywordNamedInputs => ~result.ok
    /\ OwnDoc(KeywordValueDocs, KeywordReturnDocs, KeywordScriptDocs) =>
         /\ result.ok
         /\ TheValue.t = "table"
         /\ Len(TheValue.e) = 1
         /\ TheValue.e[1].k = "keyvalue"
         /\ TheValue.e[1].key.t = "str"
         /\ \E v \in KeywordValues : ValueText = StringKeyTable(TheValue.e[1].key.s, v)

\* C10 happens: {goto = 1} has been refused because goto is a reserved word.
C10_Witness ==
  /\ pc = "parsed"
  /\ format = "Value"
  /\ input = <<"{", "g", "o", "t", "o", " ", "=", " ", "1", "}">>
  /\ ~result.ok
  /\ <<"identifier cannot be a reserved word">> \in result.expected

\* ---------------------------------------------------------------------
\* C11: strings that borrow
\* ---------------------------------------------------------------------

\* LuaValue::is_borrowed: a String whose Cow is Cow::Borrowed.
is_borrowed(v) == v.t = "str" /\ v.own # "owned"

\* Every String of a value: the value itself, or the strings in the keys and
\* the values of a table.
RECURSIVE StringsOf(_)
StringsOf(v) ==
  IF v.t = "str" THEN {v}
  ELSE IF v.t = "table"
  THEN UNION ({StringsOf(v.e[k].val) : k \in 1..Len(v.e)}
              \cup {StringsOf(v.e[k].key) :
                      k \in {j \in 1..Len(v.e) : v.e[j].k = "keyvalue"}})
  ELSE {}

\* Bodies of short strings: plain bytes, one escape, and their mixtures.
PlainBodies == {<<"a">>, <<"a", "b">>, <<"[", "[", "a", "]", "]">>}
EscapeBodies ==
  {<<"\\", "n">>, <<"\\", "\\">>, <<"\\", "\"">>, <<"\\", "'">>, <<"\\", "6", "5">>, <<"\\", "x", "4", "1">>, <<"\\", "u", "{", "4", "1", "}">>, <<"\\", "u", "{", "8", "0", "}">>,
   <<"\\", "z", " ">>, <<"\\", "\n">>}
ShortBodies ==
  {<<>>} \cup PlainBodies \cup EscapeBodies
    \cup {x \o y : x \in PlainBodies, y \in EscapeBodies}
    \cup {x \o y : x \in EscapeBodies, y \in {<<"a">>, <<"\\", "r">>, <<"\\", "z">>}}
ShortStrings ==
  {<<"\"">> \o x \o <<"\"">> : x \in ShortBodies} \cup {<<"'">> \o x \o <<"'">> : x \in ShortBodies}

\* Long strings of the levels 0 to 2: empty, plain, with a backslash, with a
\* line break after the opening bracket, with a closing bracket of another
\* level inside.
LongBodies == {<<>>, <<"a">>, <<"a", "\\", "n">>, <<"\n", "a">>, <<"\r", "\n">>, <<"a", "]", "=", "]", "b">>, <<"\"">>}
LongStrings ==
  {<<"[", "[">> \o x \o <<"]", "]">> : x \in LongBodies}
    \cup {<<"[", "=", "[">> \o x \o <<"]", "=", "]">> : x \in LongBodies \cup {<<"]", "]">>}}
    \cup {<<"[", "=", "=", "[">> \o x \o <<"]", "=", "=", "]">> : x \in LongBodies}

\* A string as a value, as a key, under a name, and after another entry.
StringTexts == ShortStrings \cup LongStrings
StringInTable(x) ==
  {<<"{">> \o x \o <<"}">>, <<"{", "[", " ">> \o x \o <<" ", "]", "=">> \o x \o <<"}">>, <<"{", "k", "=">> \o x \o <<"}">>,
   <<"{", "\"", "a", "\\", "n", "\"", ",", " ">> \o x \o <<"}">>}
StringInputs ==
  Docs(StringTexts) \cup UNION {StringInTable(x) : x \in StringTexts}

InitStrings == Start(StringInputs, {MaxBudget})
SpecStrings == InitStrings /\ [][Next]_vars

\* The string is a range of the input: the offset its Cow points at lies in
\* the input, the range does not pass the end, and the bytes are those of
\* the range.
IsInputRange(str) ==
  /\ str.own = "input"
  /\ 0 <= str.at
  /\ str.at + Len(str.s) <= Len(input)
  /\ str.s = Slice(input, str.at, str.at + Len(str.s))

RoundTripScalars ==
  {<<"n", "i", "l">>, <<"t", "r", "u", "e">>, <<"f", "a", "l", "s", "e">>, <<"1">>, <<"-", "5">>, <<"0", "x", "1", "0">>, <<"9", "2", "2", "3", "3", "7", "2", "0", "3", "6", "8", "5", "4", "7", "7", "5", "8", "0", "7">>,
   <<"-", "9", "2", "2", "3", "3", "7", "2", "0", "3", "6", "8", "5", "4", "7", "7", "5", "8", "0", "8">>, <<"0", ".", "0">>, <<"-", "0", ".", "0">>, <<"0", "e", "5">>, <<"1", "e", "4", "0", "0">>, <<"-", "1", "e", "4", "0", "0">>,
   <<"1", "e", "9", "9", "9", "9">>, <<"-", "1", "e", "9", "9", "9", "9">>, <<"1", "e", "-", "4", "0", "0">>, <<"0", "x", "0", "p", "0">>, <<"(", "0", "/", "0", ")">>,
   <<"\"", "\"">>, <<"\"", "a", "\"">>, <<"'", "a", "'">>, <<"[", "[", "a", "]", "]">>, <<"\"", "1", "\"">>, <<"\"", "n", "i", "l", "\"">>, <<"\"", "\\", "n", "\"">>, <<"\"", "\\", "\"", "\"">>,
   <<"\"", "a", " ", "b", "\"">>, <<"\"", "{", "}", "\"">>}
RoundTripTables ==
  {<<"{", "}">>, <<"{", "1", ",", "2", "}">>, <<"{", "1", ";", "2", ";", "}">>, <<"{", "a", "=", "1", "}">>, <<"{", "[", "1", "]", "=", "2", "}">>, <<"{", "[", "-", "1", "]", "=", "t", "r", "u", "e", ",", "n", "i", "l", "}">>,
   <<"{", "[", "{", "}", "]", "=", "1", "}">>, <<"{", "{", "}", "}">>, <<"{", "{", "a", "=", "{", "}", "}", "}">>, <<"{", "[", "0", ".", "0", "]", "=", "1", "e", "4", "0", "0", "}">>, <<"{", "[", "\"", "k", "\"", "]", "=", "1", "}">>, <<"{", "k", "=", "\"", "v", "\"", "}">>,
   <<"{", " ", "[", " ", "1", " ", "]", " ", "=", " ", "{", " ", "2", " ", ",", " ", "3", " ", "}", " ", ",", " ", "b", " ", "=", " ", "{", " ", "}", " ", "}">>}
RoundTripValues == RoundTripScalars \cup RoundTripTables
RoundTripInputs ==
  {ValueDoc(x) : x \in RoundTripValues} \cup {ReturnDoc(x) : x \in RoundTripValues}
    \cup {ScriptDoc(x) : x \in RoundTripTables}

InitRoundTrip == Start(RoundTripInputs, 1..MaxBudget)
SpecRoundTrip == InitRoundTrip /\ [][Next]_vars

\* The floats whose text the formatter writes out here: zero and the
\* infinities.  NaN is left aside by the claim.
RECURSIVE Listed(_)
Listed(v) ==
  IF v.t = "float" THEN FloatClass(v) \in {"zero", "inf"}
  ELSE IF v.t = "table"
  THEN \A k \in 1..Len(v.e) :
         /\ Listed(v.e[k].val)
         /\ v.e[k].k = "keyvalue" => Listed(v.e[k].key)
  ELSE TRUE

\* Equality of two trees (PartialEq): strings by their bytes, however they
\* are held; floats by their value, so that the two zeros are equal.
RECURSIVE SameValue(_, _)
SameValue(a, b) ==
  /\ a.t = b.t
  /\ a.t = "bool" => a.b = b.b
  /\ a.t = "int" => a.v = b.v
  /\ a.t = "str" => a.s = b.s
  /\ a.t = "float" =>
       /\ FloatClass(a) = FloatClass(b)
       /\ FloatClass(a) = "zero" \/ (FloatClass(a) = "inf" /\ a.neg = b.neg)
  /\ a.t = "table" =>
       /\ Len(a.e) = Len(b.e)
       /\ \A k \in 1..Len(a.e) :
            /\ a.e[k].k = b.e[k].k
            /\ a.e[k].k = "namevalue" => a.e[k].name = b.e[k].name
            /\ a.e[k].k = "keyvalue" => SameValue(a.e[k].key, b.e[k].key)
            /\ SameValue(a.e[k].val, b.e[k].val)

\* C12: for every input accepted with max_depth d (as a value or as a
\* return statement), what the formatter writes for the parsed tree is
\* accepted again with the same d and yields an equal tree.  Trees with a
\* NaN or with a float that is finite and not zero are left aside.
C12_FormatThenParseIsIdentity ==
  (pc = "done" /\ outcome.kind \in {"written", "write error"}
     /\ format \in {"Value", "Return"} /\ Listed(Parsed)) =>
    /\ outcome.kind = "written"
    /\ LET again == lua_value(outcome.text, max_depth)
       IN again.ok /\ SameValue(again.val, Parsed)

\* The same for the trees without a string.
FormatThenParseWithoutStrings ==
  (pc = "done" /\ outcome.kind \in {"written", "write error"}
     /\ format \in {"Value", "Return"} /\ Listed(Parsed)
     /\ StringsOf(Parsed) = {}) =>
    /\ outcome.kind = "written"
    /\ LET again == lua_value(outcome.text, max_depth)
       IN again.ok /\ SameValue(again.val, Parsed)

\* ---------------------------------------------------------------------
\* C16: strings written by the formatter
\* ---------------------------------------------------------------------

\* The two hexadecimal digits of a byte, in lower case.
HexDigitOf(n) == Chr[IF n < 10 THEN 48 + n ELSE 87 + n]
HexPair(n) == <<HexDigitOf(n \div 16), HexDigitOf(n % 16)>>

\* A string for every byte value: the byte alone, given by a hexadecimal
\* escape; the byte between two others, followed by an escaped line feed; the
\* byte itself in a long string.
ByteStrings ==
  {<<"\"", "\\", "x">> \o HexPair(n) \o <<"\"">> : n \in 0..255}
    \cup {<<"\"", "a", "\\", "x">> \o HexPair(n) \o <<"b", "\\", "n", "\"">> : n \in 0..255}
    \cup {<<"[", "[", "a">> \o <<Chr[n]>> \o <<"]", "]">> : n \in 0..255}

InitByteStrings == Start(ByteStrings, {1})
SpecByteStrings == InitByteStrings /\ [][Next]_vars

\* How a byte is to be written inside the quotes: the named escapes, the
\* escaped quote and backslash, \xHH for the other bytes below 0x20, and
\* every other byte as it is.
EscapeOf(c) ==
  CASE c = "BEL" -> <<"\\", "a">>
    [] c = "BS" -> <<"\\", "b">>
    [] c = "\t" -> <<"\\", "t">>
    [] c = "\n" -> <<"\\", "n">>
    [] c = "VT" -> <<"\\", "v">>
    [] c = "FF" -> <<"\\", "f">>
    [] c = "\r" -> <<"\\", "r">>
    [] c = "\"" -> <<"\\", "\"">>
    [] c = "\\" -> <<"\\", "\\">>
    [] OTHER -> IF Ord[c] < 32 THEN <<"\\", "x">> \o HexPair(Ord[c]) ELSE <<c>>

EscapedContents(str) == Flatten([k \in 1..Len(str) |-> EscapeOf(str[k])])

\* C16: the formatter writes a String as a double quote, its bytes with the
\* quote, the backslash and the bytes 0x00 to 0x1F escaped (the named
\* escapes, \xHH otherwise) and every other byte as it is, and a double
\* quote.
C16_StringsWrittenQuotedAndEscaped ==
  (pc = "done" /\ outcome.kind = "written" /\ Parsed.t = "str") =>
    outcome.text = <<"\"">> \o EscapedContents(Parsed.s) \o <<"\"">>

\* What is written for a String is its bytes escaped in that way, without
\* the quotes.
StringsWrittenEscaped ==
  (pc = "done" /\ outcome.kind = "written" /\ Parsed.t = "str") =>
    outcome.text = EscapedContents(Parsed.s)

\* ---------------------------------------------------------------------
\* C13: a table projected to a sequence
\* ---------------------------------------------------------------------

\* Positional entries and entries keyed by small integers, zero and a
\* negative one among them, each with a value of its own.
SeqEntryTexts ==
  {<<"1", "1">>, <<"n", "i", "l">>, <<"[", "1", "]", "=", "7">>, <<"[", "2", "]", "=", "8">>, <<"[", "4", "]", "=", "9">>, <<"[", "0", "]", "=", "5">>, <<"[", "-", "1", "]", "=", "4">>}

RECURSIVE SeqEntryLists(_)
SeqEntryLists(n) ==
  IF n = 0 THEN {<<>>}
  ELSE SeqEntryLists(n - 1)
         \cup {IF l = <<>> THEN e ELSE l \o <<",">> \o e :
                 l \in SeqEntryLists(n - 1), e \in SeqEntryTexts}

SeqInputs ==
  {WrapPositional(l) : l \in SeqEntryLists(MaxEntries)}
    \cup {ReturnDoc(WrapPositional(l)) : l \in SeqEntryLists(1)}

InitSequences == Start(SeqInputs, {1})
SpecSequences == InitSequences /\ [][Next]_vars

\* The key of the j-th entry of a table: its own key, or for a positional
\* entry its rank among the positional entries.
KeyOf(vec, j) ==
  IF vec[j].k = "value"
  THEN Cardinality({i \in 1..j : vec[i].k = "value"})
  ELSE ToInt(vec[j].key.v)

\* The sequence the table stands for: as long as the largest key, at index
\* k the value of the last entry with the key k, nil where there is none.
SequenceOf(vec) ==
  LET keys == {KeyOf(vec, j) : j \in 1..Len(vec)}
  IN [k \in 1..Max({0} \cup keys) |->
        IF k \in keys
        THEN vec[Max({j \in 1..Len(vec) : KeyOf(vec, j) = k})].val
        ELSE Nil]

\* The table was projected to a sequence, and its entries are positional or
\* keyed by an integer.
ProjectedToSequence ==
  /\ pc = "done"
  /\ result.ok
  /\ "vec" \in DOMAIN outcome
  /\ Parsed.t = "table"
  /\ \A j \in 1..Len(Parsed.e) :
       Parsed.e[j].k = "value" \/ IsIntegerKeyed(Parsed.e[j])

\* C13: a table of positional and integer-keyed entries projected to a
\* sequence: the positional entries are numbered 1, 2, 3, ... in source
\* order; the result holds at index k - 1 (from zero) the value of the last
\* entry with the key k, nil where no entry has the key k, and is as long as
\* the largest key.
C13_SequenceByKey ==
  ProjectedToSequence =>
    outcome.kind = "ok" /\ outcome.vec = SequenceOf(Parsed.e)

\* The same for the tables whose keys are all 1 or more.
SequenceByPositiveKey ==
  (ProjectedToSequence /\ \A j \in 1..Len(Parsed.e) : KeyOf(Parsed.e, j) >= 1) =>
    outcome.kind = "ok" /\ outcome.vec = SequenceOf(Parsed.e)

\* ---------------------------------------------------------------------
\* C14: a table projected to a map with integer keys
\* ---------------------------------------------------------------------

\* The table was projected to a map, and its entries are positional or
\* keyed by an integer.
ProjectedToMap ==
  /\ pc = "done"
  /\ result.ok
  /\ "map" \in DOMAIN outcome
  /\ Parsed.t = "table"
  /\ \A j \in 1..Len(Parsed.e) :
       Parsed.e[j].k = "value" \/ IsIntegerKeyed(Parsed.e[j])

\* C14: a table projected to a map with integer keys: the i-th positional
\* entry in source order has the key i whatever the explicit keys are; the
\* keys of the map are those of the entries, and each key has the value of
\* the last entry in source order with that key.
C14_MapByKey ==
  ProjectedToMap =>
    /\ outcome.kind = "ok"
    /\ {ToInt(x) : x \in DOMAIN outcome.map}
         = {KeyOf(Parsed.e, j) : j \in 1..Len(Parsed.e)}
    /\ \A x \in DOMAIN outcome.map :
         outcome.map[x]
           = Parsed.e[Max({j \in 1..Len(Parsed.e) : KeyOf(Parsed.e, j) = ToInt(x)})].val

\* A positional entry after an explicit key, with the key 1 given twice:
\* the positional entry is the later one and wins.
C14_Witness ==
  /\ ProjectedToMap
  /\ input = <<"{", "[", "1", "]", "=", "7", ",", "[", "2", "]", "=", "8", ",", "1", "1", "}">>
  /\ outcome.kind = "ok"
  /\ Cardinality(DOMAIN outcome.map) = 2
  /\ outcome.map[Small(1, I64Limbs)] = Integer(Small(11, I64Limbs))

\* ---------------------------------------------------------------------
\* C15: a table converted to JSON
\* ---------------------------------------------------------------------

\* Positional entries (a number, a string), entries keyed by an integer and
\* by a string that reads like an integer, a named entry; and the rarer
\* ones: a table as a value, a negative key, the keys true and nil, a key
\* that is a table.
JsonEntryTexts == {<<"1", "1">>, <<"\"", "s", "\"">>, <<"[", "1", "]", "=", "7">>, <<"[", "2", "]", "=", "8">>, <<"[", "\"", "1", "\"", "]", "=", "9">>, <<"a", "=", "1">>}
RareJsonEntryTexts == {<<"{", "5", "}">>, <<"[", "-", "3", "]", "=", "6">>, <<"[", "t", "r", "u", "e", "]", "=", "2">>, <<"[", "n", "i", "l", "]", "=", "3">>, <<"[", "{", "}", "]", "=", "4">>}

\* The lists of at most n entries from texts, separated by commas.
RECURSIVE DecimalOfSmall(_)
RECURSIVE JsonEntryLists(_, _)
JsonEntryLists(texts, n) ==
  IF n = 0 THEN {<<>>}
  ELSE JsonEntryLists(texts, n - 1)
         \cup {IF l = <<>> THEN e ELSE l \o <<",">> \o e :
                 l \in JsonEntryLists(texts, n - 1), e \in texts}

\* Up to MaxEntries of the common entries, and a rare one before or after
\* up to two of the common ones.
JsonInputs ==
  {WrapPositional(l) : l \in JsonEntryLists(JsonEntryTexts, MaxEntries)}
    \cup {WrapPositional(IF l = <<>> THEN e ELSE l \o <<",">> \o e) :
            l \in JsonEntryLists(JsonEntryTexts, MaxEntries - 1), e \in RareJsonEntryTexts}
    \cup {WrapPositional(IF l = <<>> THEN e ELSE e \o <<",">> \o l) :
            l \in JsonEntryLists(JsonEntryTexts, MaxEntries - 1), e \in RareJsonEntryTexts}
    \cup {ReturnDoc(WrapPositional(l)) : l \in JsonEntryLists(JsonEntryTexts, 1)}

InitJson == Start(JsonInputs, {2})
SpecJson == InitJson /\ [][Next]_vars

\* An integer of at most two digits in decimal.
DecimalOfSmall(n) ==
  IF n < 0 THEN <<"-">> \o DecimalOfSmall(0 - n)
  ELSE IF n < 10 THEN <<Chr[48 + n]>>
  ELSE <<Chr[48 + (n \div 10)], Chr[48 + (n % 10)]>>

\* The key the j-th entry of a table is to have in the object: "i" for the
\* i-th positional entry, the name, or the explicit key as a string.
ObjectKeyOf(vec, j) ==
  IF vec[j].k = "value"
  THEN DecimalOfSmall(Cardinality({i \in 1..j : vec[i].k = "value"}))
  ELSE IF vec[j].k = "namevalue" THEN vec[j].name
  ELSE IF vec[j].key.t = "str" THEN vec[j].key.s
  ELSE IF vec[j].key.t = "nil" THEN <<"n", "i", "l">>
  ELSE IF vec[j].key.t = "bool" THEN (IF vec[j].key.b THEN <<"t", "r", "u", "e">> ELSE <<"f", "a", "l", "s", "e">>)
  ELSE DecimalOfSmall(ToInt(vec[j].key.v))

\* A table that is not empty was converted to JSON.
ConvertedToJson ==
  /\ pc = "done"
  /\ "json" \in DOMAIN outcome
  /\ outcome.kind = "json"
  /\ Parsed.t = "table"
  /\ Parsed.e # <<>>

\* C15: a table that is not empty becomes an array exactly when every entry
\* is positional, and the array holds the entries in their order; otherwise
\* it becomes an object in which the i-th positional entry has the key "i",
\* the other entries their key as a string, and each key the value of the
\* last entry with that key.
C15_ArrayOrObject ==
  ConvertedToJson =>
    LET vec == Parsed.e
        json == outcome.json
    IN IF \A j \in 1..Len(vec) : vec[j].k = "value"
       THEN /\ json.j = "array"
            /\ Len(json.a) = Len(vec)
            /\ \A j \in 1..Len(vec) : json.a[j] = to_json_value(vec[j].val).json
       ELSE /\ json.j = "object"
            /\ DOMAIN json.o = {ObjectKeyOf(vec, j) : j \in 1..Len(vec)}
            /\ \A x \in DOMAIN json.o :
                 json.o[x]
                   = to_json_value(
                       vec[Max({j \in 1..Len(vec) : ObjectKeyOf(vec, j) = x})].val).json

\* Two positional entries around an explicit key, the second one written
\* after the key "2" it replaces.
C15_Witness ==
  /\ ConvertedToJson
  /\ input = <<"{", "1", "1", ",", "[", "2", "]", "=", "8", ",", "\"", "s", "\"", "}">>
  /\ outcome.json.j = "object"
  /\ DOMAIN outcome.json.o = {<<"1">>, <<"2">>}
  /\ outcome.json.o[<<"2">>] = JsonString(<<"s">>)

\* ---------------------------------------------------------------------
\* C17: decimal floats
\* ---------------------------------------------------------------------

\* Numerals of the decimal float grammar: an optional sign, digits with a
\* radix point or without one, and an exponent that is absent, moderate,
\* beyond the largest f64 or below the smallest one.
FloatSigns == {<<>>, <<"+">>, <<"-">>}
PointMantissas == {<<"1", ".">>, <<".", "5">>, <<"1", ".", "5">>, <<"0", "0", ".", "2", "5">>, <<"3", ".", "1", "4">>}
ZeroMantissas == {<<"0", ".", "0">>, <<".", "0">>, <<"0", ".">>}
PlainMantissas == {<<"1">>, <<"3">>, <<"1", "0">>}
ModerateExponents == {<<"e", "5">>, <<"E", "+", "5">>, <<"e", "-", "5">>, <<"e", "0", "0", "0", "9">>, <<"E", "0">>}
HugeExponents == {<<"e", "4", "0", "0">>, <<"E", "+", "4", "0", "0">>, <<"e", "9", "9", "9", "9">>, <<"e", "9", "9", "9", "9", "0">>, <<"e", "1", "0", "0", "0", "0">>}
TinyExponents == {<<"e", "-", "4", "0", "0">>, <<"E", "-", "9", "9", "9", "9">>, <<"e", "-", "9", "9", "9", "9", "0">>}

Numerals(mantissas, exponents) ==
  {s \o m \o e : s \in FloatSigns, m \in mantissas, e \in exponents}

FiniteFloats ==
  Numerals(PointMantissas, {<<>>} \cup ModerateExponents)
    \cup Numerals(PlainMantissas, ModerateExponents)
ZeroFloats ==
  Numerals(ZeroMantissas, {<<>>} \cup ModerateExponents \cup HugeExponents \cup TinyExponents)
TooLargeFloats == Numerals(PointMantissas \cup PlainMantissas, HugeExponents)
TooSmallFloats == Numerals(PointMantissas \cup PlainMantissas, TinyExponents)
DecimalFloats == FiniteFloats \cup ZeroFloats \cup TooLargeFloats \cup TooSmallFloats

FloatValueDocs == {ValueDoc(x) : x \in DecimalFloats}
FloatReturnDocs == {ReturnDoc(x) : x \in TooLargeFloats}
FloatScriptDocs == {ScriptDoc(x) : x \in TooLargeFloats}

InitFloats == Start(FloatValueDocs \cup FloatReturnDocs \cup FloatScriptDocs, {1})
SpecFloats == InitFloats /\ [][Next]_vars

\* The numeral was read as the Float it stands for: of its sign; infinite
\* when its magnitude is beyond the largest f64, zero when it is below the
\* smallest one or zero, finite and not zero otherwise.
ReadAsFloat(l) ==
  /\ result.ok
  /\ TheValue.t = "float"
  /\ TheValue.neg = IsMinus(l)
  /\ FloatClass(TheValue)
       = (IF l \in TooLargeFloats THEN "inf"
          ELSE IF l \in TooSmallFloats \cup ZeroFloats THEN "zero"
          ELSE "fin")

\* C17: every numeral of the decimal float grammar (an optional sign, digits
\* with a radix point, a decimal exponent or both) is accepted and yields a
\* Float; a magnitude beyond the largest f64 gives the infinity of the sign,
\* one below the smallest f64 the zero of the sign.
C17_DecimalFloatsAccepted ==
  OwnDoc(FloatValueDocs, FloatReturnDocs, FloatScriptDocs) => ReadAsFloat(ValueText)

\* The numerals that go on after the text 1e9999 or -1e9999.
AfterInfinityLiteral(l) ==
  \E p \in {<<"1", "e", "9", "9", "9", "9">>, <<"-", "1", "e", "9", "9", "9", "9">>} :
    Len(l) > Len(p) /\ SubSeq(l, 1, Len(p)) = p

\* The same for the numerals that do not go on after 1e9999 or -1e9999.
DecimalFloatsButAfterInfinityLiteral ==
  (OwnDoc(FloatValueDocs, FloatReturnDocs, FloatScriptDocs)
     /\ ~AfterInfinityLiteral(ValueText)) => ReadAsFloat(ValueText)

\* ---------------------------------------------------------------------
\* C18: backslashes that begin no escape
\* ---------------------------------------------------------------------

\* A backslash and what follows it, where that is none of the escapes:
\* decimal escapes above 255, \x with fewer than two hex digits, \u without
\* braces, without digits, unclosed or above 0x7FFFFFFF, and a backslash
\* before a byte that names no escape.
LargeDecimalEscapes == {<<"\\", "2", "5", "6">>, <<"\\", "3", "0", "0">>, <<"\\", "9", "9", "9">>, <<"\\", "2", "5", "6", "7">>}
ShortHexEscapes == {<<"\\", "x">>, <<"\\", "x", "4">>, <<"\\", "x", "g", "1">>, <<"\\", "x", "4", "g">>, <<"\\", "X", "4", "1">>}
BadUnicodeEscapes ==
  {<<"\\", "u">>, <<"\\", "u", "4", "1">>, <<"\\", "u", "{", "}">>, <<"\\", "u", "{", "4", "1">>, <<"\\", "u", "{", "g", "}">>, <<"\\", "u", " ", "4", "1">>, <<"\\", "U", "{", "4", "1", "}">>,
   <<"\\", "u", "{", "8", "0", "0", "0", "0", "0", "0", "0", "}">>, <<"\\", "u", "{", "F", "F", "F", "F", "F", "F", "F", "F", "}">>, <<"\\", "u", "{", "1", "0", "0", "0", "0", "0", "0", "0", "0", "}">>, <<"\\", "u", "{", "0", "0", "8", "0", "0", "0", "0", "0", "0", "0", "}">>}
UnknownEscapes ==
  {<<"\\", "q">>, <<"\\", "c">>, <<"\\", " ">>, <<"\\", "?">>, <<"\\", "[">>, <<"\\", "N">>, <<"\\", "e">>, <<"\\", "-">>, <<"\\", "NUL">>,
   <<"\\", "b255">>, <<"\\", "\t">>, <<"\\", "GRAVE">>}
BadEscapes ==
  LargeDecimalEscapes \cup ShortHexEscapes \cup BadUnicodeEscapes \cup UnknownEscapes

\* The listed escapes, one of each form.
ListedEscapes ==
  {<<"\\", "a">>, <<"\\", "b">>, <<"\\", "f">>, <<"\\", "n">>, <<"\\", "r">>, <<"\\", "t">>, <<"\\", "v">>, <<"\\", "\\">>, <<"\\", "\"">>, <<"\\", "'">>,
   <<"\\", "\n">>, <<"\\", "\r", "\n">>, <<"\\", "z", " ">>, <<"\\", "x", "4", "a">>, <<"\\", "2", "5", "5">>, <<"\\", "0">>, <<"\\", "u", "{", "7", "F", "F", "F", "F", "F", "F", "F", "}">>, <<"\\", "u", "{", "0", "0", "4", "1", "}">>}

\* What stands before and after the backslash in the string; what stands
\* after it cannot complete an escape.
BeforeEscape == {<<>>, <<"\\", "n">>}
AfterEscape == {<<>>, <<"z">>}

QuotedWith(escapes) ==
  {q \o x \o e \o y \o q : q \in {<<"\"">>, <<"'">>}, x \in BeforeEscape, e \in escapes,
                           y \in AfterEscape}

\* The strings as a value, and as a value and a key of a table.
EscapeValues(escapes) ==
  QuotedWith(escapes)
    \cup {<<"{">> \o x \o <<"}">> : x \in QuotedWith(escapes)}
    \cup {<<"{", "[">> \o x \o <<"]", "=", "1", "}">> : x \in QuotedWith(escapes)}

BadEscapeInputs == Docs(EscapeValues(BadEscapes))
ListedValueDocs == {ValueDoc(x) : x \in EscapeValues(ListedEscapes)}
ListedReturnDocs == {ReturnDoc(x) : x \in EscapeValues(ListedEscapes)}
ListedScriptDocs == {ScriptDoc(x) : x \in EscapeValues(ListedEscapes)}

InitEscapes == Start(BadEscapeInputs \cup ListedValueDocs \cup ListedReturnDocs \cup ListedScriptDocs, {1})
SpecEscapes == InitEscapes /\ [][Next]_vars

\* C18: a single- or double-quoted string that contains a backslash which
\* begins none of the listed escapes (a decimal escape above 255, \x with
\* fewer than two hex digits, \u without braces or above 0x7FFFFFFF, a
\* backslash before any other byte) is rejected by every entry point.
C18_BadEscapeRejected ==
  (pc # "ready" /\ input \in BadEscapeInputs) => ~result.ok

\* A decimal escape above 255 between an escape and a plain byte was
\* rejected where its digits end.
C18_Witness ==
  /\ pc = "parsed"
  /\ format = "Value"
  /\ input = <<"\"", "\\", "n", "\\", "2", "5", "6", "z", "\"">>
  /\ ~result.ok
  /\ result.location = 7
  /\ <<"decimal escape too large">> \in result.expected

\* The same strings with a listed escape in that place are accepted by the
\* entry point of their format.
ListedEscapesAccepted ==
  OwnDoc(ListedValueDocs, ListedReturnDocs, ListedScriptDocs) => result.ok

\* ---------------------------------------------------------------------
\* C19: the \u{...} escape
\* ---------------------------------------------------------------------

\* Code points at both ends of every length of RFC 2279, the surrogates,
\* and values beyond U+10FFFF, in hex.
CodepointTexts ==
  {<<"0">>, <<"1">>, <<"4", "1">>, <<"7", "f">>, <<"7", "F">>, <<"8", "0">>, <<"e", "9">>, <<"7", "F", "F">>, <<"8", "0", "0">>, <<"2", "0", "A", "C">>, <<"D", "8", "0", "0">>, <<"d", "f", "f", "f">>,
   <<"F", "F", "F", "F">>, <<"1", "0", "0", "0", "0">>, <<"1", "F", "6", "0", "0">>, <<"1", "0", "F", "F", "F", "F">>, <<"1", "1", "0", "0", "0", "0">>, <<"1", "F", "F", "F", "F", "F">>, <<"2", "0", "0", "0", "0", "0">>,
   <<"3", "F", "F", "F", "F", "F", "F">>, <<"4", "0", "0", "0", "0", "0", "0">>, <<"1", "2", "3", "4", "5", "6", "7", "8">>, <<"7", "f", "f", "f", "f", "f", "f", "f">>, <<"7", "F", "F", "F", "F", "F", "F", "F">>}

ZeroDigits(n) == [k \in 1..n |-> "0"]

\* A string with one \u{...} escape: its quote, the bytes before the
\* escape, the zeros before the digits, the digits, the bytes after.
UnicodeCases ==
  [q : {"\"", "'"}, pre : {<<>>, <<"a">>}, zeros : 0..MaxLeadingZeros,
   hex : CodepointTexts, post : {<<>>}]
    \cup [q : {"\""}, pre : {<<>>}, zeros : {0, 9}, hex : CodepointTexts, post : {<<"z">>}]

UnicodeText(c) ==
  <<c.q>> \o c.pre \o <<"\\", "u", "{">> \o ZeroDigits(c.zeros) \o c.hex \o <<"}">> \o c.post \o <<c.q>>

UnicodeValueDocs == {ValueDoc(UnicodeText(c)) : c \in UnicodeCases}
UnicodeReturnDocs == {ReturnDoc(UnicodeText(c)) : c \in UnicodeCases}
UnicodeScriptDocs == {ScriptDoc(UnicodeText(c)) : c \in UnicodeCases}

InitUnicode == Start(UnicodeValueDocs \cup UnicodeReturnDocs \cup UnicodeScriptDocs, {1})
SpecUnicode == InitUnicode /\ [][Next]_vars

\* RFC 2279: the number of bytes of a code point, the lead byte of a
\* sequence of n bytes without its payload, and the encoding.
Rfc2279Len(c) ==
  IF c < 128 THEN 1
  ELSE IF c < 2048 THEN 2
  ELSE IF c < 65536 THEN 3
  ELSE IF c < 2097152 THEN 4
  ELSE IF c < 67108864 THEN 5
  ELSE 6

Rfc2279Lead == <<0, 192, 224, 240, 248, 252>>

RECURSIVE Pow64(_)
Pow64(k) == IF k = 0 THEN 1 ELSE 64 * Pow64(k - 1)

Rfc2279(c) ==
  LET n == Rfc2279Len(c)
  IN [k \in 1..n |->
        Chr[IF k = 1 THEN Rfc2279Lead[n] + (c \div Pow64(n - 1))
            ELSE 128 + ((c \div Pow64(n - k)) % 64)]]

\* C19: for every code point c from 0 to 0x7FFFFFFF the escape \u{c}, c in
\* hex with any number of leading zeros, decodes to the RFC 2279 encoding
\* of c (1 byte below 0x80, 2 below 0x800, 3 below 0x10000, 4 below
\* 0x200000, 5 below 0x4000000, 6 otherwise), surrogates included.
C19_UnicodeEscapeIsRfc2279 ==
  OwnDoc(UnicodeValueDocs, UnicodeReturnDocs, UnicodeScriptDocs) =>
    \A c \in UnicodeCases :
      ValueText = UnicodeText(c) =>
        /\ result.ok
        /\ TheValue.t = "str"
        /\ TheValue.s = c.pre \o Rfc2279(HexNumber(c.hex)) \o c.post

\* The largest code point, written with leading zeros, was decoded to six
\* bytes.
C19_Witness ==
  /\ pc = "parsed"
  /\ format = "Value"
  /\ input = <<"\"", "\\", "u", "{", "0", "7", "F", "F", "F", "F", "F", "F", "F", "}", "\"">>
  /\ result.ok
  /\ result.val.s = <<"b253", "b191", "b191", "b191", "b191", "b191">>

\* ---------------------------------------------------------------------
\* C20: long brackets
\* ---------------------------------------------------------------------

MaxLevel == 5

EqualSigns(n) == [k \in 1..n |-> "="]
OpenerText(level) == <<"[">> \o EqualSigns(level) \o <<"[">>
CloserText(level) == <<"]">> \o EqualSigns(level) \o <<"]">>

\* Bodies of long strings: plain, with closing and opening brackets of the
\* levels 0 to 2 and 6, with parts of closing brackets, with quotes and with
\* backslashes.  None starts with a line break.
LongStringBodies ==
  {<<>>, <<"a">>, <<"a", "]", "]", "b">>, <<"a", "]", "=", "]", "b">>, <<"a", "]", "=", "=", "]", "b">>, <<"a", "]", "=", "=", "=", "=", "=", "=", "]">>, <<"]">>, <<"a", "]">>, <<"]", "=">>, <<"=">>, <<"a", "]", "=">>,
   <<"]", "]", "]", "=", "]">>, <<"[", "[", "a">>, <<"[", "=", "[", "a">>, <<"x", "[", "=", "=", "[", "y", "]", "=", "=", "]", "z">>, <<"a", "]", "]", "\\", "\"", "]", "=", "=", "]">>, <<"\"">>, <<"'", "a", "'">>, <<"a", "\\">>, <<"\\", "n">>, <<"\\", "]">>, <<"\\", "\"">>,
   <<"a", "\n", "b">>, <<"]", " ", "]">>}

\* A long string: its level and what stands between its brackets.
LongCases == [level : 0..MaxLevel, body : LongStringBodies]
LongText(c) == OpenerText(c.level) \o c.body \o CloserText(c.level)

LongValueDocs == {ValueDoc(LongText(c)) : c \in LongCases}
LongReturnDocs == {ReturnDoc(LongText(c)) : c \in LongCases}
LongScriptDocs == {ScriptDoc(LongText(c)) : c \in LongCases}

\* Two long strings in a table, the first with a closing bracket of another
\* level inside.
LongPairs ==
  [first : [level : 0..2, body : {<<"a">>, <<"a", "]", "]", "b">>, <<"a", "]", "=", "]", "b">>, <<"a", "]", "=", "=", "]", "b">>}],
   second : [level : {0, 1, MaxLevel}, body : {<<"c">>}]]
LongPairText(c) == <<"{">> \o LongText(c.first) \o <<",">> \o LongText(c.second) \o <<"}">>
LongPairDocs == {LongPairText(c) : c \in LongPairs}

InitLong ==
  Start(LongValueDocs \cup LongReturnDocs \cup LongScriptDocs \cup LongPairDocs, {2})
SpecLong == InitLong /\ [][Next]_vars

\* Where pat first occurs in text; 0 when it does not occur.
OccursAt(text, pat, i) ==
  i + Len(pat) - 1 <= Len(text) /\ SubSeq(text, i, i + Len(pat) - 1) = pat
FirstOccurrence(text, pat) ==
  IF \E i \in 1..Len(text) : OccursAt(text, pat, i)
  THEN CHOOSE i \in 1..Len(text) :
         OccursAt(text, pat, i) /\ \A j \in 1..(i - 1) : ~OccursAt(text, pat, j)
  ELSE 0

\* What follows the opening bracket of level `level` in text is a string
\* that ends at the first closing bracket of that level: its content, and
\* what is left of text after the closing bracket.
LongStringOf(text, level) ==
  LET rest == SubSeq(text, Len(OpenerText(level)) + 1, Len(text))
      i == FirstOccurrence(rest, CloserText(level))
  IN [content |-> SubSeq(rest, 1, i - 1),
      left |-> SubSeq(rest, i + Len(CloserText(level)), Len(rest))]

\* A document that is one long string is read as its content when nothing
\* is left after the first closing bracket of its level, and is rejected
\* when something is left.
LongDocEndsAtFirstCloser ==
  OwnDoc(LongValueDocs, LongReturnDocs, LongScriptDocs) =>
    \A c \in LongCases :
      ValueText = LongText(c) =>
        LET str == LongStringOf(ValueText, c.level)
        IN IF str.left = <<>>
           THEN result.ok /\ TheValue.t = "str" /\ TheValue.s = str.content
           ELSE ~result.ok

\* In a table each of two long strings ends at the first closing bracket of
\* its own level.
LongPairEndsAtFirstCloser ==
  (pc = "parsed" /\ format = "Value") =>
    \A c \in LongPairs :
      input = LongPairText(c) =>
        LET first == LongStringOf(LongText(c.first), c.first.level)
        IN IF first.left = <<>>
           THEN /\ result.ok
                /\ result.val.t = "table"
                /\ Len(result.val.e) = 2
                /\ result.val.e[1].k = "value"
                /\ result.val.e[1].val.t = "str"
                /\ result.val.e[1].val.s = c.first.body
                /\ result.val.e[2].k = "value"
                /\ result.val.e[2].val.t = "str"
                /\ result.val.e[2].val.s = c.second.body
           ELSE ~result.ok

\* C20: a long-bracket string opened at level k (0 to 5) ends at the first
\* closing bracket of exactly level k; closing brackets of any other level,
\* quotes and backslashes inside the body are kept as they are, as content.
C20_LongStringEndsAtItsLevel ==
  LongDocEndsAtFirstCloser /\ LongPairEndsAtFirstCloser

\* A string of level 1 that holds closing brackets of the levels 0 and 2
\* a backslash and a quote was read up to its own closing bracket.
C20_Witness ==
  /\ pc = "parsed"
  /\ format = "Value"
  /\ input = <<"[", "=", "[", "a", "]", "]", "\\", "\"", "]", "=", "=", "]", "]", "=", "]">>
  /\ result.ok
  /\ result.val.s = <<"a", "]", "]", "\\", "\"", "]", "=", "=", "]">>

\* ---------------------------------------------------------------------
\* C21: a table is the list of its fields
\* ---------------------------------------------------------------------

\* Fields of a table constructor as they are written, each with the entry
\* it stands for: positional, keyed and named ones, two fields for the key 1
\* and two for the name a, the string key "a", and a field with whitespace
\* around it.
IntegerOf(n) == Integer(Small(n, I64Limbs))
Fields ==
  { [text |-> <<"1">>, entry |-> EntryValue(IntegerOf(1))],
    [text |-> <<"[", "1", "]", "=", "2">>, entry |-> EntryKeyValue(IntegerOf(1), IntegerOf(2))],
    [text |-> <<"[", "1", "]", "=", "3">>, entry |-> EntryKeyValue(IntegerOf(1), IntegerOf(3))],
    [text |-> <<"a", "=", "1">>, entry |-> EntryNameValue(<<"a">>, IntegerOf(1))],
    [text |-> <<" ", "a", " ", "=", " ", "2", " ">>, entry |-> EntryNameValue(<<"a">>, IntegerOf(2))],
    [text |-> <<"[", "\"", "a", "\"", "]", "=", "3">>, entry |-> EntryKeyValue([t |-> "str", s |-> <<"a">>], IntegerOf(3))],
    [text |-> <<"n", "i", "l">>, entry |-> EntryValue(Nil)] }

\* A table constructor: its fields in order, the separator after the first
\* field (the other one follows the second field), and what stands after
\* the last field.
FieldLists == UNION {[1..n -> Fields] : n \in 0..MaxEntries}
Constructors ==
  [fields : FieldLists, sep : {",", ";"}, last : {<<>>}]
    \cup [fields : FieldLists \ {<<>>}, sep : {","}, last : {<<",">>, <<" ", ";", " ">>}]

SeparatorAfter(c, k) ==
  IF k = Len(c.fields) THEN c.last
  ELSE IF k % 2 = 1 THEN <<c.sep>>
  ELSE IF c.sep = "," THEN <<";">> ELSE <<",">>

RECURSIVE FieldsText(_, _)
FieldsText(c, k) ==
  IF k > Len(c.fields) THEN <<>>
  ELSE c.fields[k].text \o SeparatorAfter(c, k) \o FieldsText(c, k + 1)

ConstructorText(c) == <<"{">> \o FieldsText(c, 1) \o <<"}">>

ConstructorInputs == {ConstructorText(c) : c \in Constructors}

InitConstructors == Start(ConstructorInputs, {1})
SpecConstructors == InitConstructors /\ [][Next]_vars

\* Each constructor text with the entries of its fields, in their order.
ConstructorEntries ==
  {<<ConstructorText(c), [k \in 1..Len(c.fields) |-> c.fields[k].entry]>> : c \in Constructors}

\* A value without the place its strings are held in.
RECURSIVE Bare(_)
BareEntry(entry) ==
  IF entry.k = "value" THEN EntryValue(Bare(entry.val))
  ELSE IF entry.k = "namevalue" THEN EntryNameValue(entry.name, Bare(entry.val))
  ELSE EntryKeyValue(Bare(entry.key), Bare(entry.val))
Bare(v) ==
  IF v.t = "str" THEN [t |-> "str", s |-> v.s]
  ELSE IF v.t = "table" THEN Table([k \in 1..Len(v.e) |-> BareEntry(v.e[k])])
  ELSE v

\* C21: the Table of a table constructor lists exactly one entry for each
\* written field, in the order of the source and as keyed, named or
\* positional as the field was written; fields with the same key are all
\* kept, nothing is merged, dropped or reordered.
C21_OneEntryPerField ==
  (pc = "parsed" /\ format = "Value" /\ input \in ConstructorInputs) =>
    /\ result.ok
    /\ result.val.t = "table"
    /\ <<input, Bare(result.val).e>> \in ConstructorEntries

\* A constructor with the key 1 written twice and the name a between them
\* was read as three entries.
C21_Witness ==
  /\ pc = "parsed"
  /\ format = "Value"
  /\ input = <<"{", "[", "1", "]", "=", "2", ",", "a", "=", "1", ";", "[", "1", "]", "=", "3", "}">>
  /\ result.ok
  /\ Len(result.val.e) = 3
  /\ result.val.e[1].k = "keyvalue"
  /\ result.val.e[2].k = "namevalue"
  /\ result.val.e[3].val = IntegerOf(3)

\* ---------------------------------------------------------------------
\* Scripts of several assignments and what separates them.

MaxStatements == 3

\* Assignments as written, with the name and the value each one assigns.
Assignments ==
  { [text |-> <<"x", "=", "4">>, name |-> <<"x">>, value |-> IntegerOf(4)],
    [text |-> <<"y", " ", "=", " ", "\"", "s", "\"">>, name |-> <<"y">>, value |-> [t |-> "str", s |-> <<"s">>]],
    [text |-> <<"x", "=", "{", "1", "}">>, name |-> <<"x">>, value |-> Table(<<EntryValue(IntegerOf(1))>>)] }

\* What stands between two assignments: semicolons, one or several, with
\* or without whitespace around and between them, or whitespace alone.
StatementSeparators ==
  {<<";">>, <<";", ";">>, <<" ", ";", " ">>, <<";", "\n", ";">>, <<"\n">>}

AssignmentLists == UNION {[1..n -> Assignments] : n \in 1..MaxStatements}

SeparatorLists == UNION {[1..n -> StatementSeparators] : n \in 0..(MaxStatements - 1)}

RECURSIVE ScriptText(_, _)
ScriptText(as, seps) ==
  IF Len(as) = 1 THEN as[1].text
  ELSE as[1].text \o seps[1] \o ScriptText(Tail(as), Tail(seps))

\* Each script text with the pairs of its assignments, in their order.
ScriptPairs ==
  {<<ScriptText(as, seps), [k \in 1..Len(as) |-> <<as[k].name, as[k].value>>]>> :
     <<as, seps>> \in {x \in AssignmentLists \X SeparatorLists : Len(x[1]) = Len(x[2]) + 1}}

SeparatedScripts == {x[1] : x \in ScriptPairs}

InitSeparated == Start(SeparatedScripts, {1})

SpecSeparated == InitSeparated /\ [][Next]_vars

\* C22: a script of n assignments, separated by one or several semicolons
\* with any whitespace around them (also ";;") or by whitespace alone, gives
\* exactly n pairs of an identifier and a value, in the order of the source.
C22_PairsInSourceOrder ==
  (pc = "parsed" /\ format = "Script" /\ input \in SeparatedScripts) =>
    /\ result.ok
    /\ <<input, [k \in 1..Len(result.val) |-> <<result.val[k][1], Bare(result.val[k][2])>>]>>
         \in ScriptPairs

\* Three assignments, two of them to x, with ";;" and a semicolon between
\* line breaks in between, have given three pairs.
C22_Witness ==
  /\ pc = "parsed"
  /\ format = "Script"
  /\ input = <<"x", "=", "4", ";", ";", "y", " ", "=", " ", "\"", "s", "\"", ";", "\n", ";", "x", "=", "{", "1", "}">>
  /\ result.ok
  /\ Len(result.val) = 3
  /\ result.val[1][1] = <<"x">>
  /\ result.val[2][1] = <<"y">>
  /\ result.val[3][2].t = "table"

\* ---------------------------------------------------------------------
\* Values built by the caller: LuaTableEntry::NameValue is a public variant
\* that takes any string as the name.

\* Names that are no identifier: empty, reserved words, a digit first, a
\* byte that is no letter, digit or underscore (a hyphen, a blank, a dot,
\* the two bytes of U+00E9).
NamesNotIdentifiers ==
  {<<>>, <<"a", "n", "d">>, <<"e", "n", "d">>, <<"g", "o", "t", "o">>, <<"n", "i", "l">>, <<"w", "h", "i", "l", "e">>, <<"1", "a">>, <<"9">>, <<"a", "-", "b">>, <<"a", " ", "b">>, <<"a", ".">>, <<"-">>,
   <<"b195", "b169">>, <<"a", "b195", "b169">>}

NamesIdentifiers == {<<"a">>, <<"_">>, <<"_", "1">>, <<"a", "n">>, <<"e", "n", "d", "s">>, <<"A", "9">>}

\* The places of a named entry in a built table: alone, after a positional
\* entry, before one, and in a table that is the value of a named entry,
\* the value of a keyed entry or the key of a keyed entry.
BuiltWith(name) ==
  LET named == EntryNameValue(name, IntegerOf(1))
  IN { Table(<<named>>),
       Table(<<EntryValue(Boolean(TRUE)), named>>),
       Table(<<named, EntryValue(Nil)>>),
       Table(<<EntryNameValue(<<"a">>, Table(<<named>>))>>),
       Table(<<EntryKeyValue(IntegerOf(2), Table(<<named>>))>>),
       Table(<<EntryKeyValue(Table(<<named>>), IntegerOf(2))>>) }

BuiltNotIdentifiers == UNION {BuiltWith(name) : name \in NamesNotIdentifiers}

BuiltIdentifiers == UNION {BuiltWith(name) : name \in NamesIdentifiers}

\* The caller holds a value it has built, or an input to be parsed.
InitBuilt ==
  \/ Start({}, {1})
  \/ /\ input = <<>>
     /\ max_depth = 1
     /\ pc = "parsed"
     /\ format = "Built"
     /\ result \in {[ok |-> TRUE, val |-> v, location |-> -1, expected |-> {}] :
                      v \in BuiltNotIdentifiers \cup BuiltIdentifiers}
     /\ outcome = NoOutcome

SpecBuilt == InitBuilt /\ [][Next]_vars

\* The formatter has been applied to a built value.
FormattedBuilt == pc = "done" /\ format = "Built" /\ "text" \in DOMAIN outcome

\* C23: formatting a value with a named entry whose name is no identifier
\* (empty, a reserved word, a digit first, or a byte outside letters,
\* digits and underscore) fails with the error InvalidLuaIdentifier, which
\* is returned before the name is written.
C23_BadNameIsAnError ==
  (FormattedBuilt /\ result.val \in BuiltNotIdentifiers) =>
    /\ outcome.kind = "write error"
    /\ outcome.msg = "InvalidLuaIdentifier"

\* A table whose value for key 2 is a table with an entry named goto has
\* been refused.
C23_Witness ==
  /\ FormattedBuilt
  /\ result.val = Table(<<EntryKeyValue(IntegerOf(2),
                                        Table(<<EntryNameValue(<<"g", "o", "t", "o">>, IntegerOf(1))>>))>>)
  /\ outcome.kind = "write error"
  /\ outcome.msg = "InvalidLuaIdentifier"

\* A built value whose names are identifiers is written.
BuiltIdentifiersWritten ==
  (FormattedBuilt /\ result.val \in BuiltIdentifiers) => outcome.kind = "written"

\* ---------------------------------------------------------------------
\* Names: what the parser takes as the left-hand side of an assignment and
\* what the formatter takes as the name of a named entry.

MaxNameLen == 2

\* The reserved words of the Lua 5.4 manual (3.1), as a set.
ReservedWords ==
  {<<"a", "n", "d">>, <<"b", "r", "e", "a", "k">>, <<"d", "o">>, <<"e", "l", "s", "e">>, <<"e", "l", "s", "e", "i", "f">>, <<"e", "n", "d">>, <<"f", "a", "l", "s", "e">>, <<"f", "o", "r">>, <<"f", "u", "n", "c", "t", "i", "o", "n">>,
   <<"g", "o", "t", "o">>, <<"i", "f">>, <<"i", "n">>, <<"l", "o", "c", "a", "l">>, <<"n", "i", "l">>, <<"n", "o", "t">>, <<"o", "r">>, <<"r", "e", "p", "e", "a", "t">>, <<"r", "e", "t", "u", "r", "n">>, <<"t", "h", "e", "n">>,
   <<"t", "r", "u", "e">>, <<"u", "n", "t", "i", "l">>, <<"w", "h", "i", "l", "e">>}

\* Every string of up to MaxNameLen of a letter of each case, a digit, an
\* underscore and a hyphen.
ShortNames == UNION {[1..n -> {"a", "Z", "1", "_", "-"}] : n \in 0..MaxNameLen}

\* Names next to reserved words, names with other bytes, longer names.
OtherNames ==
  {<<"a", "n">>, <<"a", "n", "d", "s">>, <<"A", "n", "d">>, <<"A", "N", "D">>, <<"g", "o", "t">>, <<"g", "o", "t", "o", "s">>, <<"n", "i", "l", "_">>, <<"_", "n", "i", "l">>, <<"d", "o", "1">>, <<"w", "h", "i", "l">>,
   <<"w", "h", "i", "l", "e", "s">>, <<"n", "i", "l", "1">>, <<"t", "r", "u", "e", "_">>, <<"f", "a", "l", "s", "e", "9">>, <<"f", "u", "n", "c", "t", "i", "o">>, <<"e", "l", "s", "e", "i">>, <<"e", "l", "s", "e", "i", "f", "s">>, <<"x", "_", "y", "9">>, <<"_", "_", "i", "n", "d", "e", "x">>, <<"z">>, <<"A">>, <<"9", "z">>,
   <<"a", ".", "b">>, <<"a", " ", "b">>, <<"a", " ">>, <<" ", "a">>, <<"$">>, <<"a", "=">>, <<"a", ";">>, <<"b195", "b169">>, <<"a", "NUL">>}

CandidateNames == ReservedWords \cup ShortNames \cup OtherNames

\* Names in Lua: letters, digits and underscores, no digit first, no
\* reserved word.
IsName(w) ==
  /\ w # <<>>
  /\ \A k \in 1..Len(w) : w[k] \in Lower \cup Upper \cup Digits \cup {"_"}
  /\ w[1] \notin Digits
  /\ w \notin ReservedWords

\* The script that assigns 1 to w, and the table that names its entry w.
AssignTo(w) == w \o <<"=", "1">>

NamedAs(w) == Table(<<EntryNameValue(w, IntegerOf(1))>>)

NameScripts == {AssignTo(w) : w \in CandidateNames}

NamedTables == {NamedAs(w) : w \in CandidateNames}

InitNames ==
  \/ Start(NameScripts, {1})
  \/ /\ input = <<>>
     /\ max_depth = 1
     /\ pc = "parsed"
     /\ format = "Built"
     /\ result \in {[ok |-> TRUE, val |-> v, location |-> -1, expected |-> {}] :
                      v \in NamedTables}
     /\ outcome = NoOutcome

SpecNames == InitNames /\ [][Next]_vars

\* The script has been taken as one assignment whose left-hand side is
\* all of w.
TakenAsName(w) ==
  /\ result.ok
  /\ Len(result.val) = 1
  /\ result.val[1][1] = w

\* C24: the identifier production of the parser and valid_lua_identifier
\* accept the same byte strings: w is the whole left-hand side of a script
\* assignment, and w is written as the name of a named entry, exactly when
\* w is not empty, holds only letters, digits and underscores, does not
\* start with a digit and is none of the 22 reserved words.
C24_SameIdentifiers ==
  /\ (pc = "parsed" /\ format = "Script" /\ input \in NameScripts) =>
       \A w \in CandidateNames : input = AssignTo(w) => (TakenAsName(w) <=> IsName(w))
  /\ (FormattedBuilt /\ result.val \in NamedTables) =>
       ((outcome.kind = "written") <=> IsName(result.val.e[1].name))

\* The reserved word goto has been refused as a left-hand side.
C24_Witness ==
  /\ pc = "parsed"
  /\ format = "Script"
  /\ input = AssignTo(<<"g", "o", "t", "o">>)
  /\ ~result.ok

\* The name gotos has been written as the name of a named entry, and the
\* name goto has been refused.
NamesWrittenAndRefused ==
  /\ FormattedBuilt
  /\ \/ result.val = NamedAs(<<"g", "o", "t", "o", "s">>) /\ outcome.kind = "written"
     \/ result.val = NamedAs(<<"g", "o", "t", "o">>) /\ outcome.kind = "write error"

\* ---------------------------------------------------------------------
\* A short string of two plain spans and two escapes.

\* "hello\tworld\u{65E5}" as written: the escapes are a backslash and the
\* bytes after it.
HelloWorld == <<"\"", "h", "e", "l", "l", "o", "\\", "t", "w", "o", "r", "l", "d", "\\", "u", "{", "6", "5", "E", "5", "}", "\"">>

\* Its parts and other ways of writing it, each a short string.
HelloTexts ==
  {HelloWorld, <<"'", "h", "e", "l", "l", "o", "\\", "t", "w", "o", "r", "l", "d", "\\", "u", "{", "6", "5", "E", "5", "}", "'">>, <<"\"", "h", "e", "l", "l", "o", "\"">>, <<"\"", "h", "e", "l", "l", "o", "\\", "t", "\"">>, <<"\"", "\\", "t", "w", "o", "r", "l", "d", "\"">>,
   <<"\"", "\\", "u", "{", "6", "5", "E", "5", "}", "\"">>, <<"\"", "h", "e", "l", "l", "o", "\\", "t", "w", "o", "r", "l", "d", "\"">>, <<"\"", "w", "o", "r", "l", "d", "\\", "u", "{", "6", "5", "E", "5", "}", "\"">>, <<"\"", "h", "e", "l", "l", "o", "\\", "9", "w", "o", "r", "l", "d", "\\", "u", "{", "6", "5", "e", "5", "}", "\"">>}

HelloInputs == Docs(HelloTexts)

InitHello == Start(HelloInputs, {1})

SpecHello == InitHello /\ [][Next]_vars

\* The bytes the string stands for: hello, a tab, world and the three
\* bytes E6 97 A5 of U+65E5.
HelloWorldBytes == <<"h", "e", "l", "l", "o">> \o <<"\t">> \o <<"w", "o", "r", "l", "d">> \o <<"b230", "b151", "b165">>

ParsedHelloWorld == OwnDoc({ValueDoc(HelloWorld)}, {ReturnDoc(HelloWorld)}, {ScriptDoc(HelloWorld)})

\* C25 (as stated): the string is owned and has exactly 13 bytes: hello,
\* 0x09, world, 0xE6 0x97 0xA5.
C25_ThirteenBytes ==
  ParsedHelloWorld =>
    /\ result.ok
    /\ TheValue.t = "str"
    /\ TheValue.own = "owned"
    /\ TheValue.s = HelloWorldBytes
    /\ Len(TheValue.s) = 13

\* C25 (amended): the string is owned and has exactly 14 bytes: hello,
\* 0x09, world, 0xE6 0x97 0xA5.
C25_FourteenBytes ==
  ParsedHelloWorld =>
    /\ result.ok
    /\ TheValue.t = "str"
    /\ TheValue.own = "owned"
    /\ TheValue.s = HelloWorldBytes
    /\ Len(TheValue.s) = 14

\* The string has been parsed as a value and ends with the byte A5.
C25_Witness ==
  /\ pc = "parsed"
  /\ format = "Value"
  /\ input = HelloWorld
  /\ result.ok
  /\ result.val.own = "owned"
  /\ result.val.s[Len(result.val.s)] = "b165"

\* ---------------------------------------------------------------------
\* The recursion of the table production under a budget.

\* The measure of the recursion of the parse the state holds the result of.
Recursion == Raw(format, input, max_depth).e

\* C26: in a parse with the budget max_depth, accepted or not, at most
\* max_depth table bodies are open at once, since the budget is checked at
\* each opener before an entry of that table is parsed; the table
\* productions active at once are at most max_depth + 1.
C26_RecursionWithinBudget ==
  pc = "parsed" =>
    /\ Recursion.open <= max_depth
    /\ Recursion.deep <= max_depth + 1

\* A value of three nested tables has been refused under the budget 2 with
\* two table bodies open and a third production stopped at its opener.
C26_Witness ==
  /\ pc = "parsed"
  /\ format = "Value"
  /\ input = <<"{", "{", "{", "1", "}", "}", "}">>
  /\ max_depth = 2
  /\ ~result.ok
  /\ Recursion.open = 2
  /\ Recursion.deep = 3

\* A value nested deeper than the budget has driven the recursion to the
\* budget and not beyond.
BudgetReachedWhenNestedDeeper ==
  (pc = "parsed" /\ format = "Value" /\ input \in Nested(MaxNest)
     /\ BraceNesting(input) > max_depth) =>
    /\ Recursion.open = max_depth
    /\ Recursion.deep = max_depth + 1

\* ---------------------------------------------------------------------
\* Every call of an entry point returns.

MaxChars == 3

\* Every text of up to MaxChars of the bytes that open, close, separate
\* and fill the repetitions of the grammar.
ShortTexts == UNION {[1..n -> {"{", "}", ";", ",", " ", "a", "=", "1"}] : n \in 0..MaxChars}

\* Texts where a repetition has nothing to take, has much to take, or is
\* cut off by the end of the input.
RepetitionTexts ==
  {<<"\"", "\"">>, <<"'", "'">>, <<"\"">>, <<"\"", "a", "\\">>, <<"\"", "\\", "n", "\\", "n", "\\", "n", "\"">>, <<"\"", "a", "\\", "t", "a", "\\", "t", "b", "\"">>, <<"[", "[", "]", "]">>, <<"[", "[">>, <<"[", "=", "=", "[", "]", "=", "=", "]">>,
   <<"[", "=", "=", "[", "a", "]", "]">>, <<"[", "[", "\n">>, <<" ", "\t", "\n", " ">>, <<"a", "=", "1", ";", ";", ";", ";">>, <<"a", "=", "1", " ", ";", " ", ";", " ", ";">>, <<"a", "=", "1", " ", "b", "=", "2", " ", "c", "=", "3">>, <<";">>, <<";", ";", "a", "=", "1">>,
   <<"a", "=", "{", "}", ";", "b", "=", "{", "}">>, <<"{", "1", ",", "2", ",", "3", ",", "4", "}">>, <<"{", "1", ";", "2", ";", "}">>, <<"{", ",", "}">>, <<"{", "1", ",", ",", "2", "}">>, <<"{", "{", "}", ",", "{", "}", ",", "{", "}", "}">>, <<"{", "{", "{", "{">>, <<"{", " ", "{", " ", "{">>,
   <<"r", "e", "t", "u", "r", "n">>, <<"r", "e", "t", "u", "r", "n", " ">>, <<"r", "e", "t", "u", "r", "n", " ", "{">>, <<"r", "e", "t", "u", "r", "n", " ", "1", " ">>, <<"0", "x">>, <<"1", "e">>, <<"1", ".">>, <<"0", "x", ".", "p">>,
   <<"a", " ", "=", " ", "\"", "x", "\"", " ", ";", " ", "b", " ", "=", " ", "[", "[", "y", "]", "]", " ", ";", " ", "c", " ", "=", " ", "{", "z", " ", "=", " ", "1", "}", " ", ";">>}

TerminationInputs == ShortTexts \cup RepetitionTexts

InitTermination == Start(TerminationInputs, {0, 1})

\* The step of a call of an entry point, whichever it is: the call is left
\* with the parser at its end or for ever in it.
ParseStep == pc = "ready" /\ pc' \in {"parsed", "parsing"}

\* A call that can be made is made: the parser is a function the caller
\* runs, and nothing suspends it.
SpecTermination == InitTermination /\ [][Next]_vars /\ WF_pc(ParseStep)

\* C27: every call of an entry point returns, with a value or with an
\* error, for every input and every budget: no repetition of the grammar
\* makes an iteration that consumes no byte, so no call stays in the
\* parser.
C27_EveryParseReturns ==
  /\ [](pc # "parsing")
  /\ (pc = "ready") ~> (pc = "parsed")

\* A script of three assignments with separators of several semicolons has
\* been parsed, and a string cut off in an escape has been refused.
C27_Witness ==
  /\ pc = "parsed"
  /\ \/ format = "Script" /\ input = <<"a", " ", "=", " ", "\"", "x", "\"", " ", ";", " ", "b", " ", "=", " ", "[", "[", "y", "]", "]", " ", ";", " ", "c", " ", "=", " ", "{", "z", " ", "=", " ", "1", "}", " ", ";">> /\ result.ok
     \/ format = "Value" /\ input = <<"\"", "a", "\\">> /\ ~result.ok

\* ---------------------------------------------------------------------
\* The pending array and the pending object of a conversion to JSON.

\* C28: while a table is converted to JSON, after each entry at most one of
\* the pending array and the pending object holds something, and after the
\* last entry of a table that is not empty exactly one does: neither of the
\* two outcomes marked unreachable occurs, whatever the entries are.
C28_OnePendingAtATime ==
  (pc = "done" /\ "json" \in DOMAIN outcome) =>
    /\ ~outcome.both
    /\ outcome.kind # "panic"

\* Two positional entries and then a named one have been converted: the
\* array of the first two was moved into the object of three keys.
C28_Witness ==
  /\ pc = "done"
  /\ format = "Value"
  /\ input = <<"{", "1", "1", ",", "\"", "s", "\"", ",", "a", "=", "1", "}">>
  /\ "json" \in DOMAIN outcome
  /\ outcome.kind = "json"
  /\ outcome.json.j = "object"
  /\ DOMAIN outcome.json.o = {<<"1">>, <<"2">>, <<"a">>}
  /\ ~outcome.both

\* ---------------------------------------------------------------------
\* A numeral or a literal followed at once by an identifier character (C29)
\* ---------------------------------------------------------------------

\* Numerals and the literals nil, true and false.
WordValues == { <<"4">>, <<"1", "0">>, <<"1", ".", "5">>, <<".", "5">>, <<"0", "x", "1">>, <<"0", "X", "A">>, <<"-", "7">>, <<"n", "i", "l">>, <<"t", "r", "u", "e">>, <<"f", "a", "l", "s", "e">> }

\* The hexadecimal ones, which a letter a..f would go on.
WordValuesHex == { <<"0", "x", "1">>, <<"0", "X", "A">> }

\* Bytes an identifier can hold.
WordFollowers == { <<"y">>, <<"e">>, <<"p">>, <<"_">>, <<"G">>, <<"x">> }

\* What comes after: the rest of an assignment to the name the follower
\* starts, or nothing more.
WordRests == { <<"=", "5">>, <<" ", "=", " ", "5">>, <<"=", "n", "i", "l">>, <<"z", "=", "5">>, <<>> }

\* A value, a follower that is not one more digit of it, and a rest.
RunTogether ==
  {v \o f \o r : v \in WordValues \ WordValuesHex, f \in WordFollowers, r \in WordRests}
    \cup {v \o f \o r : v \in WordValuesHex, f \in WordFollowers \ {<<"e">>}, r \in WordRests}

RunTogetherScripts == {ScriptDoc(x) : x \in RunTogether}

RunTogetherInputs == Docs(RunTogether)

InitRunTogether == Start(RunTogetherInputs, {1})
SpecRunTogether == InitRunTogether /\ [][Next]_vars

\* C29: a script in which a numeral or nil, true or false is followed at
\* once by an identifier character is rejected; the value and the
\* following bytes are not taken as two assignments.
C29_ValueEndsAtWordBoundary ==
  (pc = "parsed" /\ format = "Script" /\ input \in RunTogetherScripts) => ~result.ok

\* As a single value and as a return statement the same texts are rejected.
RunTogetherRejectedAsOneValue ==
  (/\ pc = "parsed"
   /\ \/ format = "Value" /\ input \in RunTogether
      \/ format = "Return" /\ input \in {ReturnDoc(x) : x \in RunTogether}) =>
    ~result.ok

\* A script of them that is accepted was taken as two assignments, the
\* second one to a name that starts with the follower.
RunTogetherSplitInTwo ==
  (pc = "parsed" /\ format = "Script" /\ input \in RunTogetherScripts /\ result.ok) =>
    /\ Len(result.val) = 2
    /\ result.val[1][1] = <<"a">>
    /\ result.val[2][1][1] \in {f[1] : f \in WordFollowers}

\* A script of them is accepted exactly when an assignment follows the
\* value.
RunTogetherAcceptedWithAssignment ==
  (pc = "parsed" /\ format = "Script" /\ input \in RunTogetherScripts) =>
    (result.ok <=>
       \E x \in RunTogether, r \in WordRests \ {<<>>} :
         /\ input = ScriptDoc(x)
         /\ Len(x) > Len(r)
         /\ SubSeq(x, Len(x) - Len(r) + 1, Len(x)) = r)

\* ---------------------------------------------------------------------
\* A separator in a table constructor that does not follow an entry (C30)
\* ---------------------------------------------------------------------

FieldTexts == { <<"1">>, <<"a", "=", "2">>, <<"[", "3", "]", "=", "4">> }
FieldSeparators == { <<",">>, <<";">> }

\* Between the braces: a separator and nothing else.
LoneSeparators == FieldSeparators \cup {<<" ">> \o s \o <<" ">> : s \in FieldSeparators}

\* Between the braces: a separator before the first entry, two separators
\* with no entry between them, after an entry or with no entry at all.
LeadingSeparators == {s \o f : s \in FieldSeparators, f \in FieldTexts}
DoubledSeparators ==
  {f \o s \o t \o g : f \in FieldTexts, s \in FieldSeparators, t \in FieldSeparators,
                      g \in FieldTexts \cup {<<>>}}
    \cup {s \o t : s \in FieldSeparators, t \in FieldSeparators}

LoneSeparatorTables == {WrapPositional(x) : x \in LoneSeparators}

StraySeparatorTables ==
  LoneSeparatorTables
    \cup {WrapPositional(x) : x \in LeadingSeparators \cup DoubledSeparators}

StraySeparatorInputs == Docs(StraySeparatorTables)

InitStraySeparator == Start(StraySeparatorInputs, {1})
SpecStraySeparator == InitStraySeparator /\ [][Next]_vars

\* C30: a table constructor with a separator that does not follow an entry
\* is rejected by every entry point: a ',' or ';' is accepted only between
\* two entries or once after the last entry.
C30_SeparatorFollowsAnEntry ==
  (pc = "parsed" /\ input \in StraySeparatorInputs) => ~result.ok

\* The table of what an entry point returned, when it holds one first.
FirstTable ==
  IF format = "Script" THEN result.val[1][2] ELSE result.val

\* Only the constructors that hold a separator and nothing else are
\* accepted, and as the empty table.
StraySeparatorAcceptedWhenLone ==
  (pc = "parsed" /\ input \in StraySeparatorInputs /\ result.ok) =>
    /\ input \in Docs(LoneSeparatorTables)
    /\ FirstTable = Table(<<>>)

\* A separator and nothing else between the braces is accepted as a value.
LoneSeparatorAccepted ==
  (pc = "parsed" /\ format = "Value" /\ input \in LoneSeparatorTables) => result.ok

\* ---------------------------------------------------------------------
\* The specification: any of the common inputs, any budget.
\* ---------------------------------------------------------------------

Init == Start({}, Budgets)
Spec == Init /\ [][Next]_vars

====
